---- MODULE Spec2Model ----
(***************************************************************************)
(* A model of the message hub (app/core/hub.py), its storage               *)
(* (app/core/storage.py), the tool registry (app/ai/tools.py), the AI      *)
(* round loop (app/ai/openai.py) and the AmoCRM funnel engine              *)
(* (app/crm/service.py).                                                   *)
(*                                                                         *)
(* Conventions.  Python's None is the integer None (-1); identifiers are   *)
(* naturals.  A Python str is a tuple of one-character strings, so that    *)
(* strip(), join() and emptiness are computed, not assumed.  An f-string   *)
(* is the tuple of its literal and interpolated parts.                     *)
(***************************************************************************)
EXTENDS Integers, Sequences, FiniteSets, TLC

\* ------------------------------------------------------------------ bounds
\* Stages of the largest funnel the model loads.
MaxStages == 3
\* Answers in one update_lead_fields call.
MaxAnswers == 2
\* ensure_contact_and_lead calls begun in one behaviour.
MaxEnsureCalls == 3

\* set_crm_binding calls made in one behaviour.
MaxBindingCalls == 3
\* Tool handler runs in one behaviour.
MaxHandlerRuns == 2
\* call_tool calls made in one behaviour.
MaxToolCalls == 2

\* --------------------------------------------------------- program constants
\* stop_after_attempt(3) of the retry wrapper.
MaxAttempts == 3
\* max_rounds of generate.
max_rounds == 6

None == -1

\* Python truthiness of an Optional[int]: None and 0 are falsy.
Truthy(x) == x # None /\ x # 0

\* --------------------------------------------------------------- str helpers
Blank == " "

RECURSIVE LStrip(_)
LStrip(s) == IF s # <<>> /\ Head(s) = Blank THEN LStrip(Tail(s)) ELSE s

RECURSIVE RStrip(_)
RStrip(s) ==
    IF s # <<>> /\ s[Len(s)] = Blank THEN RStrip(SubSeq(s, 1, Len(s) - 1)) ELSE s

\* str.strip()
Strip(s) == RStrip(LStrip(s))

\* sep.join(parts)
RECURSIVE Join(_, _)
Join(sep, parts) ==
    IF parts = <<>> THEN <<>>
    ELSE IF Len(parts) = 1 THEN parts[1]
    ELSE parts[1] \o sep \o Join(sep, Tail(parts))

\* ------------------------------------------------------------------- funnel
\* The status id stages.json gives the stage with 0-based index i.
StatusOfIndex(i) == 10 * (i + 1)
\* The id of the one question questions.json gives the block with index i.
QuestionOfIndex(i) == 100 * (i + 1) + 1
\* A status id that no stage has, and a question id no block has.
UnknownStatus == StatusOfIndex(MaxStages) + 9
UnknownQuestion == QuestionOfIndex(MaxStages) + 98

VARIABLES
    \* the funnel engine (app/crm/service.py)
    stage_ids,      \* AmoCRMService._stage_ids: tuple of status ids
    stages,         \* AmoCRMService._stages: tuple of Stage records
    crm_bindings,   \* table crm_bindings: user -> row
    crmLeadStatus,  \* the CRM's own status of the user's lead
    calls,          \* the in-flight update_lead_fields / change_lead_stage calls
    \* ensure_contact_and_lead
    ens,            \* the in-flight ensure_contact_and_lead call of each task
    bindingLock,    \* holder of _binding_locks[user], or "none"
    crmContacts,    \* contacts the CRM has created
    crmLeads,       \* leads the CRM has created
    crmAllCreated,  \* every CRM answer so far was a 2xx carrying the created entity
    ensBegun,       \* ensure_contact_and_lead calls begun
    \* Storage.upsert_contact (app/core/storage.py)
    contacts,       \* table contacts: a set of rows [key, global_user_id]
    storageLock,    \* holder of Storage._lock, or "none"
    ups,            \* the in-flight upsert_contact call of each task
    uuids,          \* uuid4 values drawn so far
    returned,       \* key -> the global_user_ids upsert_contact has returned
    createdCount,   \* key -> the calls that returned created = True
    \* the tool registry (app/ai/tools.py)
    TOOLS,          \* _TOOLS: the registered tool names
    toolCall,       \* the in-flight call_tool call
    handlerRuns,    \* handler executions so far
    toolLog,        \* what call_tool has given its callers, in order
    \* the hub (app/core/hub.py), the session (app/core/session.py) and the
    \* round loop (app/ai/openai.py)
    assistant,      \* Hub._assistant is not None
    crm_service,    \* Hub._crm_service is not None
    prompt_exists,  \* app/ai/system_prompt.md exists
    passes,         \* the on_incoming_message pass of each task
    current_session, \* _current_session: the value in the context of each task
    messages,       \* table messages, in insertion order
    ai_responses,   \* table ai_responses, in insertion order
    outbox,         \* what the connectors have sent, in order
    \* table crm_bindings (app/core/storage.py) as SQL holds it
    binding_table,  \* the rows of crm_bindings
    bindingLog,     \* the arguments of the set_crm_binding calls, in order
    \* the tool handlers (app/ai/tools.py, app/crm/deps.py)
    MESSAGING_ACTIONS, \* _MESSAGING_ACTIONS is not None
    amocrm_service, \* get_amocrm_service() is not None
    handlerRun,     \* the tool handler that is running
    \* the value helpers of the funnel engine (app/crm/service.py)
    valueCall,      \* the _resolve_enum_id / _build_custom_field_values call
    \* the VK connector (app/connectors/vk_connector.py)
    longPoll        \* the _run_long_poll task of one community and its server

funnelVars == <<stage_ids, stages>>
stageVars == <<crmLeadStatus, calls>>
ensureVars == <<ens, bindingLock, crmContacts, crmLeads, crmAllCreated, ensBegun>>

upsertVars == <<contacts, storageLock, ups, uuids, returned, createdCount>>

toolVars == <<TOOLS, toolCall, handlerRuns, toolLog>>
hubVars == <<assistant, crm_service, prompt_exists, passes, current_session,
             messages, ai_responses, outbox>>

tableVars == <<binding_table, bindingLog>>

handlerVars == <<MESSAGING_ACTIONS, amocrm_service, handlerRun>>
\* What a call of a value helper leaves alone.
ValueFrame ==
    UNCHANGED <<funnelVars, crm_bindings, stageVars, ensureVars, upsertVars, toolVars,
                hubVars, tableVars, handlerVars, longPoll>>

vars == <<funnelVars, crm_bindings, stageVars, ensureVars, upsertVars, toolVars, hubVars,
          tableVars, handlerVars, valueCall, longPoll>>

\* What a step of update_lead_fields / change_lead_stage leaves alone.
StageFrame ==
    UNCHANGED <<funnelVars, ensureVars, upsertVars, toolVars, hubVars, tableVars, handlerVars, valueCall, longPoll>>
\* What a step of ensure_contact_and_lead leaves alone.
EnsureFrame ==
    UNCHANGED <<funnelVars, calls, upsertVars, toolVars, hubVars, tableVars, handlerVars, valueCall, longPoll>>
\* What a step of upsert_contact leaves alone.
UpsertFrame ==
    UNCHANGED <<funnelVars, crm_bindings, stageVars, ensureVars, toolVars, hubVars, tableVars,
                handlerVars, valueCall, longPoll>>
\* What a step of call_tool leaves alone.
ToolFrame ==
    UNCHANGED <<funnelVars, crm_bindings, stageVars, ensureVars, upsertVars, hubVars,
                tableVars, handlerVars, valueCall, longPoll>>
\* What a step of an on_incoming_message pass leaves alone.
HubFrame ==
    UNCHANGED <<funnelVars, crm_bindings, stageVars, ensureVars, upsertVars, toolVars,
                tableVars, handlerVars, valueCall, longPoll>>
\* What a set_crm_binding call leaves alone.
TableFrame ==
    UNCHANGED <<funnelVars, stageVars, ensureVars, upsertVars, toolVars, hubVars, handlerVars, valueCall, longPoll>>
\* What a step of a tool handler leaves alone.
HandlerFrame ==
    UNCHANGED <<funnelVars, ensureVars, upsertVars, tableVars, TOOLS, toolCall, toolLog,
                assistant, crm_service, prompt_exists, passes, current_session,
                ai_responses, MESSAGING_ACTIONS, amocrm_service, valueCall, longPoll>>

Users == {"u1", "u2"}
\* The user the funnel calls are made for.
TheUser == "u1"

Max(a, b) == IF a >= b THEN a ELSE b
Min(a, b) == IF a <= b THEN a ELSE b

\* AmoCRMService.create: stage_ids from stages.json (nIds entries), one Stage
\* per block of questions.json (nBlocks blocks), then one question-less Stage
\* for every status id beyond the blocks.
CreateStageIds(nIds) == [i \in 1..nIds |-> StatusOfIndex(i - 1)]

CreateStages(nIds, nBlocks) ==
    [i \in 1..Max(nIds, nBlocks) |->
        [index |-> i - 1,
         status_id |-> IF i <= nIds THEN StatusOfIndex(i - 1) ELSE None,
         questions |-> IF i <= nBlocks
                       THEN <<[id |-> QuestionOfIndex(i - 1), type |-> "text",
                               enums |-> <<>>]>>
                       ELSE <<>>]]

\* The (stages.json, questions.json) sizes the model loads: equal, more
\* statuses than blocks, more blocks than statuses, and no statuses at all.
FunnelShapes ==
    {<<MaxStages, MaxStages>>, <<MaxStages, MaxStages - 1>>,
     <<MaxStages - 1, MaxStages>>, <<0, MaxStages>>}

\* _questions_by_id.get(qid): the stages holding a question with that id.
StagesWithQuestion(qid) ==
    {i \in 1..Len(stages) :
        \E k \in 1..Len(stages[i].questions) : stages[i].questions[k].id = qid}

QuestionKnown(qid) == StagesWithQuestion(qid) # {}

\* _question_stage_index[qid]: a dict comprehension, the last stage wins.
QuestionStageIndex(qid) ==
    LET S == StagesWithQuestion(qid)
    IN  stages[CHOOSE i \in S : \A j \in S : j <= i].index

\* _questions_by_id[qid]
QuestionById(qid) ==
    LET S == StagesWithQuestion(qid)
        i == CHOOSE x \in S : \A j \in S : j <= x
        k == CHOOSE y \in 1..Len(stages[i].questions) : stages[i].questions[y].id = qid
    IN  stages[i].questions[k]

\* _stage_index_from_status: None when the status is None or belongs to no
\* stage and to no entry of stage_ids.
StageIndexFromStatus(status_id) ==
    IF status_id = None THEN None
    ELSE LET S == {i \in 1..Len(stages) : stages[i].status_id = status_id}
             T == {i \in 1..Len(stage_ids) : stage_ids[i] = status_id}
         IN  IF S # {} THEN stages[CHOOSE i \in S : \A j \in S : j <= i].index
             ELSE IF T # {} THEN (CHOOSE i \in T : \A j \in T : i <= j) - 1
             ELSE None

\* _current_stage_index
CurrentStageIndex(binding) ==
    IF Len(stages) = 0 THEN 0
    ELSE IF ~binding.exists \/ binding.lead_status_id = None THEN 0
    ELSE LET idx == StageIndexFromStatus(binding.lead_status_id)
         IN  IF idx = None THEN 0 ELSE Min(Max(idx, 0), Len(stages) - 1)

\* ------------------------------------------------------------ crm_bindings
NoRow == [exists |-> FALSE, contact_id |-> None, lead_id |-> None, lead_status_id |-> None]

\* An UPDATE SET x = excluded.x.
CoalesceOverwrite(new, old) == new

\* COALESCE(excluded.x, crm_bindings.x)
Coalesce(new, old) == IF new # None THEN new ELSE old

\* Storage.get_crm_binding: the row, or NoRow for Python's None.
GetCrmBinding(rows, u) == rows[u]

\* Storage.set_crm_binding: INSERT ... ON CONFLICT DO UPDATE with COALESCE.
SetCrmBinding(rows, u, contact_id, lead_id, lead_status_id) ==
    [rows EXCEPT ![u] =
        IF rows[u].exists
        THEN [exists |-> TRUE,
              contact_id |-> Coalesce(contact_id, rows[u].contact_id),
              lead_id |-> Coalesce(lead_id, rows[u].lead_id),
              lead_status_id |-> Coalesce(lead_status_id, rows[u].lead_status_id)]
        ELSE [exists |-> TRUE, contact_id |-> contact_id, lead_id |-> lead_id,
              lead_status_id |-> lead_status_id]]

\* The statement of set_crm_binding on the rows of the table: INSERT, and ON
\* CONFLICT(global_user_id) the UPDATE of the conflicting row.
UpsertBindingRow(table, u, contact_id, lead_id, lead_status_id) ==
    LET conflict == {r \in table : r.global_user_id = u}
    IN  IF conflict = {}
        THEN table \cup {[global_user_id |-> u, contact_id |-> contact_id,
                          lead_id |-> lead_id, lead_status_id |-> lead_status_id]}
        ELSE (table \ conflict) \cup
             {[global_user_id |-> u,
               contact_id |-> Coalesce(contact_id, r.contact_id),
               lead_id |-> Coalesce(lead_id, r.lead_id),
               lead_status_id |-> Coalesce(lead_status_id, r.lead_status_id)] : r \in conflict}

\* A set_crm_binding call with the given arguments.
SetCrmBindingCall(u, contact_id, lead_id, lead_status_id) ==
    /\ Len(bindingLog) < MaxBindingCalls
    /\ binding_table' = UpsertBindingRow(binding_table, u, contact_id, lead_id, lead_status_id)
    /\ crm_bindings' = SetCrmBinding(crm_bindings, u, contact_id, lead_id, lead_status_id)
    /\ bindingLog' = Append(bindingLog,
            [global_user_id |-> u, contact_id |-> contact_id, lead_id |-> lead_id,
             lead_status_id |-> lead_status_id])
    /\ TableFrame

\* ------------------------------------------------------------------ _request
\* What the CRM does with one attempt: the HTTP status it answers (0: the
\* transport raised httpx.HTTPError) and whether it processed the request.
AttemptKinds ==
    {[status |-> 200, processed |-> TRUE],
     [status |-> 302, processed |-> FALSE],
     [status |-> 500, processed |-> FALSE],
     [status |-> 0, processed |-> FALSE],
     [status |-> 0, processed |-> TRUE]}

\* One attempt raises AmoCRMError (status >= 400) or httpx.HTTPError.
AttemptFails(a) == a.status = 0 \/ a.status >= 400

\* _request with stop_after_attempt(4).
RequestAttemptOneMore(sent, a) ==
    IF ~AttemptFails(a) THEN "response"
    ELSE IF sent >= MaxAttempts THEN "raise"
    ELSE "retry"

\* AmoCRMService._request, one attempt of AsyncRetrying(stop_after_attempt(3),
\* reraise=True): with `sent` attempts made before it, the attempt answered
\* by a returns the response, is retried, or re-raises its error.
RequestAttempt(sent, a) ==
    IF ~AttemptFails(a) THEN "response"
    ELSE IF sent + 1 >= MaxAttempts THEN "raise"
    ELSE "retry"

\* ---------------------------------------------------------- funnel calls
StageCallers == {"a", "b"}

\* No stage, and the LeadStageContext of a funnel without stages.
NoStage == [index |-> None, status_id |-> None]

EmptyContext ==
    [lead_present |-> FALSE, current_stage |-> NoStage, next_stage |-> NoStage,
     questions |-> <<>>]

IdleCall ==
    [pc |-> "idle", op |-> "none", stage_id |-> None, answers |-> <<>>,
     binding |-> NoRow, payload |-> <<>>, result |-> <<>>, sent |-> 0,
     last_status |-> None, context |-> EmptyContext]

\* change_lead_stage without its stage_regression_not_allowed check.
ChangeLeadStageCheckNoRegression(binding, stage_id) ==
    IF ~binding.exists \/ ~Truthy(binding.lead_id) THEN "lead_not_found"
    ELSE IF stage_id = None THEN "invalid_stage"
    ELSE LET target_index == StageIndexFromStatus(stage_id)
             found == StageIndexFromStatus(binding.lead_status_id)
             current_index == IF found = None THEN -1 ELSE found
         IN  IF target_index = None THEN "invalid_stage"
             ELSE IF target_index > current_index + 1 THEN "stage_out_of_order"
             ELSE "proceed"

\* change_lead_stage without its stage_out_of_order check.
ChangeLeadStageCheckNoOrder(binding, stage_id) ==
    IF ~binding.exists \/ ~Truthy(binding.lead_id) THEN "lead_not_found"
    ELSE IF stage_id = None THEN "invalid_stage"
    ELSE LET target_index == StageIndexFromStatus(stage_id)
             found == StageIndexFromStatus(binding.lead_status_id)
             current_index == IF found = None THEN -1 ELSE found
         IN  IF target_index = None THEN "invalid_stage"
             ELSE IF current_index >= 0 /\ target_index < current_index
                  THEN "stage_regression_not_allowed"
             ELSE "proceed"

\* change_lead_stage with `binding.lead_id is None` in place of the test of
\* its truth value.
ChangeLeadStageCheckIsNone(binding, stage_id) ==
    IF ~binding.exists \/ binding.lead_id = None THEN "lead_not_found"
    ELSE IF stage_id = None THEN "invalid_stage"
    ELSE LET target_index == StageIndexFromStatus(stage_id)
             found == StageIndexFromStatus(binding.lead_status_id)
             current_index == IF found = None THEN -1 ELSE found
         IN  IF target_index = None THEN "invalid_stage"
             ELSE IF target_index > current_index + 1 THEN "stage_out_of_order"
             ELSE IF current_index >= 0 /\ target_index < current_index
                  THEN "stage_regression_not_allowed"
             ELSE "proceed"

\* The synchronous checks of change_lead_stage between its binding read and
\* its PATCH: the sentinel it returns, or "proceed".
ChangeLeadStageCheck(binding, stage_id) ==
    IF ~binding.exists \/ ~Truthy(binding.lead_id) THEN "lead_not_found"
    ELSE IF stage_id = None THEN "invalid_stage"
    ELSE LET target_index == StageIndexFromStatus(stage_id)
             found == StageIndexFromStatus(binding.lead_status_id)
             current_index == IF found = None THEN -1 ELSE found
         IN  IF target_index = None THEN "invalid_stage"
             ELSE IF target_index > current_index + 1 THEN "stage_out_of_order"
             ELSE IF current_index >= 0 /\ target_index < current_index
                  THEN "stage_regression_not_allowed"
             ELSE "proceed"

\* change_lead_stage up to its first suspension after the binding read.
ChangeLeadStageRead(c, stage_id) ==
    /\ calls[c].pc = "idle"
    /\ LET binding == GetCrmBinding(crm_bindings, TheUser)
           check == ChangeLeadStageCheck(binding, stage_id)
       IN  calls' = [calls EXCEPT ![c] =
                [IdleCall EXCEPT !.op = "change_lead_stage", !.stage_id = stage_id,
                                 !.binding = binding,
                                 !.pc = IF check = "proceed" THEN "patch_stage" ELSE "done",
                                 !.result = IF check = "proceed" THEN <<>> ELSE <<check>>]]
    /\ UNCHANGED <<crm_bindings, crmLeadStatus>>
    /\ StageFrame

\* One attempt of the PATCH {"status_id": target} through _request.
ChangeLeadStagePatch(c) ==
    /\ calls[c].pc = "patch_stage"
    /\ \E a \in AttemptKinds :
        LET next == RequestAttempt(calls[c].sent, a)
        IN  /\ crmLeadStatus' = IF a.processed THEN calls[c].stage_id ELSE crmLeadStatus
            /\ calls' = [calls EXCEPT ![c].sent = @ + 1,
                                      ![c].last_status = a.status,
                                      ![c].pc = CASE next = "response" -> "write_stage"
                                                  [] next = "raise" -> "done"
                                                  [] OTHER -> @,
                                      ![c].result = IF next = "raise" THEN <<"raised">> ELSE <<>>]
    /\ UNCHANGED crm_bindings
    /\ StageFrame

\* set_crm_binding(lead_status_id=target) and the return of "ok".
ChangeLeadStageWrite(c) ==
    /\ calls[c].pc = "write_stage"
    /\ crm_bindings' = SetCrmBinding(crm_bindings, TheUser, None, None, calls[c].stage_id)
    /\ calls' = [calls EXCEPT ![c].pc = "done", ![c].result = <<"ok">>]
    /\ UNCHANGED crmLeadStatus
    /\ StageFrame

\* --------------------------------------------------------- get_lead_context
\* The answer rendered for a question without a value: the dash.
NoAnswerText == <<"-">>
\* The answer rendered from the values of a fetched lead.
SomeAnswerText == <<"a">>

\* self._stages[stage_index + 1] with the test of the last stage dropped: the
\* stage after the last one is the first.
NextStageIndexWrap(stage_index) == (stage_index + 1) % Len(stages)

\* The index of next_stage_obj, None when the current stage is the last.
NextStageIndex(stage_index) ==
    IF stage_index + 1 < Len(stages) THEN stage_index + 1 ELSE None

\* {"index": ..., "status_id": ...} of a stage, or NoStage for None.
StageDict(idx) ==
    IF idx = None THEN NoStage
    ELSE [index |-> stages[idx + 1].index, status_id |-> stages[idx + 1].status_id]

\* The LeadStageContext built for the binding; answered says whether
\* answers_map holds an answer for the questions of the stage.
LeadContext(binding, answered) ==
    LET stage_index == CurrentStageIndex(binding)
        current_stage_obj == stages[stage_index + 1]
    IN  [lead_present |-> binding.exists /\ Truthy(binding.lead_id),
         current_stage |-> StageDict(stage_index),
         next_stage |-> StageDict(NextStageIndex(stage_index)),
         questions |-> [k \in DOMAIN current_stage_obj.questions |->
                          [id |-> current_stage_obj.questions[k].id,
                           answer |-> IF answered THEN SomeAnswerText ELSE NoAnswerText]]]

\* get_lead_context up to its fetch of the lead.
GetLeadContextRead(c) ==
    /\ calls[c].pc = "idle"
    /\ LET binding == GetCrmBinding(crm_bindings, TheUser)
           lead_present == binding.exists /\ Truthy(binding.lead_id)
       IN  calls' = [calls EXCEPT ![c] =
             IF stages = <<>>
             THEN [IdleCall EXCEPT !.op = "get_lead_context", !.pc = "done",
                                   !.result = <<"context">>]
             ELSE IF lead_present
             THEN [IdleCall EXCEPT !.op = "get_lead_context", !.binding = binding,
                                   !.pc = "fetch_lead"]
             ELSE [IdleCall EXCEPT !.op = "get_lead_context", !.binding = binding,
                                   !.pc = "done", !.result = <<"context">>,
                                   !.context = LeadContext(binding, FALSE)]]
    /\ UNCHANGED <<crm_bindings, crmLeadStatus>>
    /\ StageFrame

\* One attempt of the GET of _fetch_lead through _request, and after its
\* response the context with the answers of the lead.
GetLeadContextFetch(c) ==
    /\ calls[c].pc = "fetch_lead"
    /\ \E a \in AttemptKinds : \E answered \in BOOLEAN :
        LET next == RequestAttempt(calls[c].sent, a)
        IN  calls' = [calls EXCEPT
                ![c].sent = @ + 1,
                ![c].last_status = a.status,
                ![c].pc = IF next = "retry" THEN @ ELSE "done",
                ![c].result = CASE next = "response" -> <<"context">>
                                [] next = "raise" -> <<"raised">>
                                [] OTHER -> <<>>,
                ![c].context = IF next = "response"
                               THEN LeadContext(calls[c].binding, answered)
                               ELSE @]
    /\ UNCHANGED <<crm_bindings, crmLeadStatus>>
    /\ StageFrame

\* ------------------------------------------------------- answer candidates
\* A raw value of an answer as the JSON of the tool call gives it: null, an
\* int, a float without fraction, a str, a dict {"enum_id": num} or a dict
\* {"value": text}.
NoneValue == [kind |-> "none", num |-> None, text |-> <<>>]
IntValue(n) == [kind |-> "int", num |-> n, text |-> <<>>]
FloatValue(n) == [kind |-> "float", num |-> n, text |-> <<>>]
StrValue(t) == [kind |-> "str", num |-> None, text |-> t]
DictIdValue(n) == [kind |-> "dict_id", num |-> n, text |-> <<>>]
DictTextValue(t) == [kind |-> "dict_value", num |-> None, text |-> t]

Digits == <<"0", "1", "2", "3", "4", "5", "6", "7", "8", "9">>

IsDigitChar(c) == \E i \in DOMAIN Digits : Digits[i] = c

DigitValue(c) == (CHOOSE i \in DOMAIN Digits : Digits[i] = c) - 1

\* str.isdigit()
IsDigit(text) == text # <<>> /\ \A i \in DOMAIN text : IsDigitChar(text[i])

\* int(text) of a digit string
RECURSIVE IntOf(_)
IntOf(text) ==
    IF text = <<>> THEN 0
    ELSE 10 * IntOf(SubSeq(text, 1, Len(text) - 1)) + DigitValue(text[Len(text)])

\* str(n) of an int n >= 0
RECURSIVE StrOfInt(_)
StrOfInt(n) ==
    IF n < 10 THEN <<Digits[n + 1]>>
    ELSE StrOfInt(n \div 10) \o <<Digits[(n % 10) + 1]>>

\* The upper-case letters of the model's texts and their lower-case forms.
UpperCase == <<"Y", "E", "S", "N", "O", "D", "A">>
LowerCase == <<"y", "e", "s", "n", "o", "d", "a">>

\* str.lower()
Lower(text) ==
    [i \in DOMAIN text |->
        IF \E k \in DOMAIN UpperCase : UpperCase[k] = text[i]
        THEN LowerCase[CHOOSE k \in DOMAIN UpperCase : UpperCase[k] = text[i]]
        ELSE text[i]]

\* str(v)
Str(v) ==
    CASE v.kind = "str" -> v.text
      [] v.kind = "int" -> StrOfInt(v.num)
      [] v.kind = "float" -> StrOfInt(v.num) \o <<".", "0">>
      [] v.kind = "none" -> <<"N", "o", "n", "e">>
      [] v.kind = "dict_id" -> <<"{'enum_id': ">> \o StrOfInt(v.num) \o <<"}">>
      [] OTHER -> <<"{'value': '">> \o v.text \o <<"'}">>

\* The first enum of the question whose value, stripped and lowered, is the
\* text: its id, or None.
EnumByText(question, text_lower) ==
    LET S == {i \in DOMAIN question.enums :
                Lower(Strip(question.enums[i].value)) = text_lower}
    IN  IF S = {} THEN None ELSE question.enums[CHOOSE i \in S : \A j \in S : i <= j].id

\* The enum of the question with the id: the id, or None.
EnumById(question, candidate_id) ==
    IF \E i \in DOMAIN question.enums : question.enums[i].id = candidate_id
    THEN candidate_id
    ELSE None

\* _resolve_enum_id for an int, a float or a str.
ResolveScalar(question, v) ==
    IF v.kind \in {"int", "float"} THEN EnumById(question, v.num)
    ELSE LET text == Strip(v.text)
         IN  IF text = <<>> THEN None
             ELSE IF IsDigit(text) THEN EnumById(question, IntOf(text))
             ELSE EnumByText(question, Lower(text))

\* _resolve_enum_id
ResolveEnumId(question, raw_value) ==
    CASE raw_value.kind = "none" -> None
      [] raw_value.kind = "dict_id" -> ResolveScalar(question, IntValue(raw_value.num))
      [] raw_value.kind = "dict_value" -> ResolveScalar(question, StrValue(raw_value.text))
      [] OTHER -> ResolveScalar(question, raw_value)

\* _normalize_free_value: the stripped text, or <<>> for Python's None.
NormalizeFreeValue(raw_value) ==
    CASE raw_value.kind = "none" -> <<>>
      [] raw_value.kind = "dict_id" -> <<>>
      [] raw_value.kind = "dict_value" -> Strip(raw_value.text)
      [] OTHER -> Strip(Str(raw_value))

\* An entry of the values of a custom field: {"enum_id": e} has no value,
\* {"value": text} has the enum_id None.
EnumEntry(e) == [enum_id |-> e, value |-> <<>>]
TextEntry(text) == [enum_id |-> None, value |-> text]

\* The select branch of _build_custom_field_values.
RECURSIVE SelectLoop(_, _, _)
SelectLoop(question, raw_values, fallback_value) ==
    IF raw_values = <<>>
    THEN IF fallback_value # <<>> THEN <<TextEntry(fallback_value)>> ELSE <<>>
    ELSE LET match == ResolveEnumId(question, Head(raw_values))
         IN  IF match # None THEN <<EnumEntry(match)>>
             ELSE SelectLoop(question, Tail(raw_values),
                             IF fallback_value = <<>>
                             THEN NormalizeFreeValue(Head(raw_values))
                             ELSE fallback_value)

\* The multiselect branch of _build_custom_field_values; seen_ids and
\* seen_texts are the ids and texts of the entries collected so far.
RECURSIVE MultiselectLoop(_, _, _, _)
MultiselectLoop(question, raw_values, enum_values, free_values) ==
    IF raw_values = <<>> THEN enum_values \o free_values
    ELSE LET value == Head(raw_values)
             match == ResolveEnumId(question, value)
             normalized == NormalizeFreeValue(value)
         IN  IF match # None /\ \A i \in DOMAIN enum_values : enum_values[i].enum_id # match
             THEN MultiselectLoop(question, Tail(raw_values),
                                  Append(enum_values, EnumEntry(match)), free_values)
             ELSE IF normalized # <<>>
                     /\ \A i \in DOMAIN free_values : free_values[i].value # normalized
             THEN MultiselectLoop(question, Tail(raw_values), enum_values,
                                  Append(free_values, TextEntry(normalized)))
             ELSE MultiselectLoop(question, Tail(raw_values), enum_values, free_values)

\* str(v).strip() is not empty
NotBlank(v) == Strip(Str(v)) # <<>>

\* [str(v) for v in raw_values if str(v).strip()]
RECURSIVE NonBlankParts(_)
NonBlankParts(raw_values) ==
    IF raw_values = <<>> THEN <<>>
    ELSE (IF NotBlank(Head(raw_values)) THEN <<Str(Head(raw_values))>> ELSE <<>>)
         \o NonBlankParts(Tail(raw_values))

\* _build_custom_field_values
BuildCustomFieldValues(question, raw_values) ==
    IF question.type = "select" THEN SelectLoop(question, raw_values, <<>>)
    ELSE IF question.type = "multiselect"
    THEN MultiselectLoop(question, raw_values, <<>>, <<>>)
    ELSE LET parts == NonBlankParts(raw_values)
         IN  IF parts = <<>> THEN <<>> ELSE <<TextEntry(Join(<<"\n">>, parts))>>

\* The stage gate comparing with >= the index after the current one.
GatedOffByOne(item, current_stage_idx) ==
    /\ item.question_id # None
    /\ QuestionKnown(item.question_id)
    /\ QuestionStageIndex(item.question_id) > current_stage_idx + 1

\* Whether the loop of update_lead_fields skips the answer as one of a stage
\* not yet reached.
Gated(item, current_stage_idx) ==
    /\ item.question_id # None
    /\ QuestionKnown(item.question_id)
    /\ QuestionStageIndex(item.question_id) > current_stage_idx

\* The loop of update_lead_fields without `if cf_values:`: an entry is
\* appended for every answer that passes the gate.
RECURSIVE FieldsLoopKeepEmpty(_, _)
FieldsLoopKeepEmpty(answers, current_stage_idx) ==
    IF answers = <<>> THEN [payload |-> <<>>, skipped |-> FALSE]
    ELSE LET item == Head(answers)
             rest == FieldsLoopKeepEmpty(Tail(answers), current_stage_idx)
         IN  IF item.question_id = None \/ ~QuestionKnown(item.question_id) THEN rest
             ELSE IF Gated(item, current_stage_idx)
                  THEN [rest EXCEPT !.skipped = TRUE]
             ELSE [rest EXCEPT !.payload =
                      <<[field_id |-> item.question_id,
                         values |-> BuildCustomFieldValues(QuestionById(item.question_id),
                                                           item.values)]>> \o @]

\* The loop of update_lead_fields over the answers: the fields payload and
\* skipped_future_questions.
RECURSIVE FieldsLoop(_, _)
FieldsLoop(answers, current_stage_idx) ==
    IF answers = <<>> THEN [payload |-> <<>>, skipped |-> FALSE]
    ELSE LET item == Head(answers)
             rest == FieldsLoop(Tail(answers), current_stage_idx)
         IN  IF item.question_id = None \/ ~QuestionKnown(item.question_id) THEN rest
             ELSE IF Gated(item, current_stage_idx)
                  THEN [rest EXCEPT !.skipped = TRUE]
             ELSE LET cf_values ==
                          BuildCustomFieldValues(QuestionById(item.question_id), item.values)
                  IN  IF cf_values = <<>> THEN rest
                      ELSE [rest EXCEPT !.payload =
                               <<[field_id |-> item.question_id, values |-> cf_values]>> \o @]

\* update_lead_fields up to its PATCH.
UpdateLeadFieldsRead(c, answers) ==
    /\ calls[c].pc = "idle"
    /\ LET binding == GetCrmBinding(crm_bindings, TheUser)
           loop == FieldsLoop(answers, CurrentStageIndex(binding))
           result == IF ~binding.exists \/ ~Truthy(binding.lead_id) THEN "lead_not_found"
                     ELSE IF loop.payload # <<>> THEN "proceed"
                     ELSE IF loop.skipped THEN "stage_not_reached"
                     ELSE "no_fields"
       IN  calls' = [calls EXCEPT ![c] =
                [IdleCall EXCEPT !.op = "update_lead_fields", !.answers = answers,
                                 !.binding = binding,
                                 !.payload = IF result = "proceed" THEN loop.payload ELSE <<>>,
                                 !.pc = IF result = "proceed" THEN "patch_fields" ELSE "done",
                                 !.result = IF result = "proceed" THEN <<>> ELSE <<result>>]]
    /\ UNCHANGED <<crm_bindings, crmLeadStatus>>
    /\ StageFrame

\* One attempt of the PATCH {"custom_fields_values": payload} through
\* _request.
UpdateLeadFieldsPatch(c) ==
    /\ calls[c].pc = "patch_fields"
    /\ \E a \in AttemptKinds :
        LET next == RequestAttempt(calls[c].sent, a)
        IN  calls' = [calls EXCEPT ![c].sent = @ + 1,
                                   ![c].last_status = a.status,
                                   ![c].pc = IF next = "retry" THEN @ ELSE "done",
                                   ![c].result = CASE next = "response" -> <<"ok">>
                                                   [] next = "raise" -> <<"raised">>
                                                   [] OTHER -> <<>>]
    /\ UNCHANGED <<crm_bindings, crmLeadStatus>>
    /\ StageFrame

\* The caller takes the result.
CallReturn(c) ==
    /\ calls[c].pc = "done"
    /\ calls' = [calls EXCEPT ![c] = IdleCall]
    /\ UNCHANGED <<crm_bindings, crmLeadStatus>>
    /\ StageFrame

\* ------------------------------------------------- ensure_contact_and_lead
EnsureTasks == {"e1", "e2"}

\* The ids the CRM gives the n-th contact and the n-th lead it creates.
ContactId(n) == 50 + n
LeadId(n) == 70 + n

\* The body of a response that did not fail: the created entity under
\* _embedded, an empty list, or no JSON at all (response.json() raises).
ResponseBodies(a) ==
    IF a.status = 200 THEN {"entity", "empty"}
    ELSE IF AttemptFails(a) THEN {"none"}
    ELSE {"empty", "invalid"}

\* The CRM created the entity of a POST attempt.
Created(a, body) == a.processed /\ (a.status = 0 \/ body = "entity")

IdleEnsure ==
    [pc |-> "idle", binding |-> NoRow, contact_id |-> None, lead_id |-> None,
     lead_status_id |-> None, sent |-> 0, result |-> NoRow,
     wrote |-> FALSE, aborted |-> FALSE]

\* An asyncio.Lock whose acquire never waits.
LockAlwaysFree(holder) == TRUE

\* asyncio.Lock.acquire returns only when nobody holds the lock.
LockFree(holder) == holder = "none"

\* ensure_contact_and_lead is called: _get_binding_lock, then the wait for
\* the lock.
EnsureBegin(t) ==
    /\ ens[t].pc = "idle"
    /\ ensBegun < MaxEnsureCalls
    /\ ensBegun' = ensBegun + 1
    /\ ens' = [ens EXCEPT ![t] = [IdleEnsure EXCEPT !.pc = "lock"]]
    /\ UNCHANGED <<crm_bindings, crmLeadStatus, bindingLock, crmContacts, crmLeads, crmAllCreated>>
    /\ EnsureFrame

\* async with lock
EnsureAcquire(t) ==
    /\ ens[t].pc = "lock"
    /\ LockFree(bindingLock)
    /\ bindingLock' = t
    /\ ens' = [ens EXCEPT ![t].pc = "read"]
    /\ UNCHANGED <<crm_bindings, crmLeadStatus, crmContacts, crmLeads, crmAllCreated, ensBegun>>
    /\ EnsureFrame

\* Where ensure_contact_and_lead goes with the ids it holds.
EnsureNext(contact_id, lead_id) ==
    IF contact_id = None THEN "create_contact"
    ELSE IF lead_id = None THEN "create_lead"
    ELSE "write"

\* binding = get_crm_binding(...) and the three locals taken from it.
EnsureRead(t) ==
    /\ ens[t].pc = "read"
    /\ LET binding == GetCrmBinding(crm_bindings, TheUser)
           contact_id == IF binding.exists /\ Truthy(binding.contact_id)
                         THEN binding.contact_id ELSE None
           lead_id == IF binding.exists /\ Truthy(binding.lead_id)
                      THEN binding.lead_id ELSE None
           lead_status_id == IF binding.exists /\ Truthy(binding.lead_status_id)
                             THEN binding.lead_status_id ELSE None
       IN  ens' = [ens EXCEPT ![t].binding = binding, ![t].contact_id = contact_id,
                              ![t].lead_id = lead_id, ![t].lead_status_id = lead_status_id,
                              ![t].pc = EnsureNext(contact_id, lead_id)]
    /\ UNCHANGED <<crm_bindings, crmLeadStatus, bindingLock, crmContacts, crmLeads,
                   crmAllCreated, ensBegun>>
    /\ EnsureFrame

\* An except branch that returns the ids the call holds so far.
EnsureAbortPartial(t) ==
    [ens[t] EXCEPT !.pc = "done", !.aborted = TRUE,
                   !.result = [exists |-> TRUE, contact_id |-> ens[t].contact_id,
                               lead_id |-> ens[t].lead_id,
                               lead_status_id |-> ens[t].lead_status_id]]

\* `return binding` of an except branch: the lock is released on the way out.
EnsureAbort(t) == [ens[t] EXCEPT !.pc = "done", !.aborted = TRUE, !.result = ens[t].binding]

\* One attempt of POST /api/v4/contacts inside _create_contact.
EnsureCreateContact(t) ==
    /\ ens[t].pc = "create_contact"
    /\ \E a \in AttemptKinds : \E body \in ResponseBodies(a) :
        LET next == RequestAttempt(ens[t].sent, a)
            count == IF Created(a, body) THEN crmContacts + 1 ELSE crmContacts
            contact_id == IF body = "entity" THEN ContactId(count) ELSE None
            failed == next = "raise" \/ (next = "response" /\ body = "invalid")
        IN  /\ crmContacts' = count
            /\ crmAllCreated' = (crmAllCreated /\ a.status = 200 /\ body = "entity")
            /\ bindingLock' = IF failed THEN "none" ELSE bindingLock
            /\ ens' = [ens EXCEPT ![t] =
                    IF failed THEN EnsureAbort(t)
                    ELSE IF next = "retry" THEN [@ EXCEPT !.sent = @ + 1]
                    ELSE [@ EXCEPT !.sent = 0, !.contact_id = contact_id,
                                   !.pc = IF contact_id # None /\ ens[t].lead_id = None
                                          THEN "create_lead" ELSE "write"]]
    /\ UNCHANGED <<crm_bindings, crmLeadStatus, crmLeads, ensBegun>>
    /\ EnsureFrame

\* The status _create_lead asks for: the first configured stage, if any.
FirstStatus == IF Len(stage_ids) > 0 THEN stage_ids[1] ELSE None

\* The status the CRM reports for a created lead: the one asked for, or,
\* asked for none, its own default or no status_id at all.
CreatedStatuses == IF FirstStatus # None THEN {FirstStatus} ELSE {None, UnknownStatus}

\* One attempt of POST /api/v4/leads inside _create_lead.
EnsureCreateLead(t) ==
    /\ ens[t].pc = "create_lead"
    /\ \E a \in AttemptKinds : \E body \in ResponseBodies(a) : \E reported \in CreatedStatuses :
        LET next == RequestAttempt(ens[t].sent, a)
            count == IF Created(a, body) THEN crmLeads + 1 ELSE crmLeads
            failed == next = "raise" \/ (next = "response" /\ body = "invalid")
            lead_id == IF body = "entity" THEN LeadId(count) ELSE 0
            actual_status == IF body = "entity" /\ reported # None THEN reported
                             ELSE FirstStatus
        IN  /\ crmLeads' = count
            /\ crmLeadStatus' = IF Created(a, body) THEN reported ELSE crmLeadStatus
            /\ crmAllCreated' = (crmAllCreated /\ a.status = 200 /\ body = "entity")
            /\ bindingLock' = IF failed THEN "none" ELSE bindingLock
            /\ ens' = [ens EXCEPT ![t] =
                    IF failed THEN EnsureAbort(t)
                    ELSE IF next = "retry" THEN [@ EXCEPT !.sent = @ + 1]
                    ELSE [@ EXCEPT !.sent = 0, !.lead_id = lead_id,
                                   !.lead_status_id = actual_status, !.pc = "write"]]
    /\ UNCHANGED <<crm_bindings, crmContacts, ensBegun>>
    /\ EnsureFrame

\* set_crm_binding(contact_id, lead_id, lead_status_id)
EnsureWrite(t) ==
    /\ ens[t].pc = "write"
    /\ crm_bindings' = SetCrmBinding(crm_bindings, TheUser, ens[t].contact_id,
                                     ens[t].lead_id, ens[t].lead_status_id)
    /\ ens' = [ens EXCEPT ![t].pc = "reread", ![t].wrote = TRUE]
    /\ UNCHANGED <<crmLeadStatus, bindingLock, crmContacts, crmLeads, crmAllCreated, ensBegun>>
    /\ EnsureFrame

\* return await get_crm_binding(...), leaving the lock.
EnsureReread(t) ==
    /\ ens[t].pc = "reread"
    /\ ens' = [ens EXCEPT ![t].pc = "done", ![t].result = GetCrmBinding(crm_bindings, TheUser)]
    /\ bindingLock' = "none"
    /\ UNCHANGED <<crm_bindings, crmLeadStatus, crmContacts, crmLeads, crmAllCreated, ensBegun>>
    /\ EnsureFrame

\* The caller takes the binding.
EnsureReturn(t) ==
    /\ ens[t].pc = "done"
    /\ ens' = [ens EXCEPT ![t] = IdleEnsure]
    /\ UNCHANGED <<crm_bindings, crmLeadStatus, bindingLock, crmContacts, crmLeads,
                   crmAllCreated, ensBegun>>
    /\ EnsureFrame

\* ---------------------------------------------------------- upsert_contact
UpsertTasks == {"p1", "p2"}

\* The (channel, platform_user_id) pairs the calls are made for.
ContactKeys == {<<"telegram", "7">>, <<"vk", "7">>}

IdleUpsert == [pc |-> "idle", key |-> <<>>, global_user_id |-> None, result |-> <<>>]

\* A SELECT that finds no row.
SelectContactNone(rows, key) == {}

\* SELECT global_user_id FROM contacts WHERE channel=? AND platform_user_id=?
SelectContact(rows, key) == {r \in rows : r.key = key}

\* A plain INSERT into a table without the primary key.
InsertContact(rows, key, global_user_id) ==
    rows \cup {[key |-> key, global_user_id |-> global_user_id]}

\* INSERT OR REPLACE under PRIMARY KEY(channel, platform_user_id)
InsertOrReplaceContact(rows, key, global_user_id) ==
    {r \in rows : r.key # key} \cup {[key |-> key, global_user_id |-> global_user_id]}

\* upsert_contact is called and waits for Storage._lock.
UpsertBegin(t, key) ==
    /\ ups[t].pc = "idle"
    /\ ups' = [ups EXCEPT ![t] = [IdleUpsert EXCEPT !.pc = "lock", !.key = key]]
    /\ UNCHANGED <<contacts, storageLock, uuids, returned, createdCount>>
    /\ UpsertFrame

\* async with self._lock
UpsertAcquire(t) ==
    /\ ups[t].pc = "lock"
    /\ LockFree(storageLock)
    /\ storageLock' = t
    /\ ups' = [ups EXCEPT ![t].pc = "select"]
    /\ UNCHANGED <<contacts, uuids, returned, createdCount>>
    /\ UpsertFrame

\* The SELECT; a row found is returned with created = False, otherwise a
\* uuid4 is drawn.
UpsertSelect(t) ==
    /\ ups[t].pc = "select"
    /\ LET found == SelectContact(contacts, ups[t].key)
       IN  IF found # {}
           THEN LET row == CHOOSE r \in found : TRUE
                IN  /\ ups' = [ups EXCEPT ![t].pc = "done",
                                          ![t].result = <<row.global_user_id, FALSE>>]
                    /\ returned' = [returned EXCEPT ![ups[t].key] = @ \cup {row.global_user_id}]
                    /\ storageLock' = "none"
                    /\ UNCHANGED uuids
           ELSE /\ ups' = [ups EXCEPT ![t].pc = "insert", ![t].global_user_id = uuids + 1]
                /\ uuids' = uuids + 1
                /\ UNCHANGED <<returned, storageLock>>
    /\ UNCHANGED <<contacts, createdCount>>
    /\ UpsertFrame

\* The INSERT OR REPLACE statement.
UpsertInsert(t) ==
    /\ ups[t].pc = "insert"
    /\ contacts' = InsertOrReplaceContact(contacts, ups[t].key, ups[t].global_user_id)
    /\ ups' = [ups EXCEPT ![t].pc = "commit"]
    /\ UNCHANGED <<storageLock, uuids, returned, createdCount>>
    /\ UpsertFrame

\* commit, and the return of (global_user_id, True) leaving the lock.
UpsertCommit(t) ==
    /\ ups[t].pc = "commit"
    /\ ups' = [ups EXCEPT ![t].pc = "done", ![t].result = <<ups[t].global_user_id, TRUE>>]
    /\ returned' = [returned EXCEPT ![ups[t].key] = @ \cup {ups[t].global_user_id}]
    /\ createdCount' = [createdCount EXCEPT ![ups[t].key] = @ + 1]
    /\ storageLock' = "none"
    /\ UNCHANGED <<contacts, uuids>>
    /\ UpsertFrame

\* The caller takes the pair.
UpsertReturn(t) ==
    /\ ups[t].pc = "done"
    /\ ups' = [ups EXCEPT ![t] = IdleUpsert]
    /\ UNCHANGED <<contacts, storageLock, uuids, returned, createdCount>>
    /\ UpsertFrame

\* --------------------------------------------------------------- call_tool
\* The tools registered when app/ai/tools.py is imported, and those that
\* register_amocrm_tools adds when run.py has a CRM service.
RegisteredAtImport == {"test_console_tool", "messaging_send_text"}
AmocrmTools == {"amocrm_update_lead_fields", "amocrm_set_lead_stage"}

\* The names call_tool is called with: the registered ones, one whose
\* registration is commented out, and one nobody defines.
ToolNames == RegisteredAtImport \cup AmocrmTools \cup {"messaging_send_voice", "no_such_tool"}

\* What awaiting tool.handler(args) gives: the string the handler returns, or
\* the Exception it raises with the text str(e).  The CRM handlers let the
\* errors of update_lead_fields / change_lead_stage through.
HandlerOutcomes(name) ==
    IF name = "test_console_tool"
    THEN {[kind |-> "return", value |-> <<"ok">>]}
    ELSE IF name = "messaging_send_text"
    THEN {[kind |-> "return", value |-> v] :
            v \in {<<"ok">>, <<"session_not_found">>, <<"invalid_text">>,
                   <<"tool_error: ", "boom">>}}
    ELSE {[kind |-> "return", value |-> v] :
            v \in {<<"snapshot">>, <<"session_not_found">>, <<"stage_out_of_order">>}}
         \cup {[kind |-> "raise", value |-> v] : v \in {<<>>, <<"AmoCRM 500">>}}

IdleToolCall ==
    [pc |-> "idle", name |-> "", result |-> <<>>, handler_raised |-> FALSE, runs_before |-> 0]

\* tool = _TOOLS.get(name); `if not tool`
ToolFound(registry, name) == name \in registry

\* f"Tool {name!r} not found"
NotFoundText(name) == <<"Tool ", "'", name, "'", " not found">>

\* call_tool with the handler awaited outside any try block.
CallToolNoCatch(outcome) ==
    IF outcome.kind = "raise"
    THEN [pc |-> "raised", result |-> <<>>]
    ELSE [pc |-> "done", result |-> outcome.value]

\* try: return await tool.handler(args) / except Exception as e: return
\* f"tool_error: {e}"
CallToolCatch(outcome) ==
    IF outcome.kind = "raise"
    THEN [pc |-> "done", result |-> <<"tool_error: ">> \o outcome.value]
    ELSE [pc |-> "done", result |-> outcome.value]

\* call_tool up to the await of the handler.
CallToolBegin(name) ==
    /\ toolCall.pc = "idle"
    /\ Len(toolLog) < MaxToolCalls
    /\ toolCall' =
         IF ToolFound(TOOLS, name)
         THEN [IdleToolCall EXCEPT !.pc = "handler", !.name = name,
                                   !.runs_before = handlerRuns]
         ELSE [IdleToolCall EXCEPT !.pc = "done", !.name = name,
                                   !.result = NotFoundText(name),
                                   !.runs_before = handlerRuns]
    /\ UNCHANGED <<TOOLS, handlerRuns, toolLog>>
    /\ ToolFrame

\* The handler runs and call_tool ends.
CallToolHandler ==
    /\ toolCall.pc = "handler"
    /\ \E outcome \in HandlerOutcomes(toolCall.name) :
         toolCall' = [toolCall EXCEPT !.pc = CallToolCatch(outcome).pc,
                                      !.result = CallToolCatch(outcome).result,
                                      !.handler_raised = outcome.kind = "raise"]
    /\ handlerRuns' = handlerRuns + 1
    /\ UNCHANGED <<TOOLS, toolLog>>
    /\ ToolFrame

\* The caller takes what call_tool gave it.
CallToolReturn ==
    /\ toolCall.pc \in {"done", "raised"}
    /\ toolLog' = Append(toolLog, [name |-> toolCall.name, result |-> toolCall.result,
                                   raised |-> toolCall.pc = "raised"])
    /\ toolCall' = IdleToolCall
    /\ UNCHANGED <<TOOLS, handlerRuns>>
    /\ ToolFrame

\* ----------------------------------------------------------------- session
\* The tasks that run one on_incoming_message pass each.
PassTasks == {"m1", "m2"}

\* Python's None for a SessionContext.
NoSession == [global_user_id |-> "none", channel |-> "none", chat_id |-> "none"]

\* The message of each task: two identities on two channels, for which
\* upsert_contact gives two global_user_ids.
MessageOf(p) ==
    IF p = "m1"
    THEN [global_user_id |-> "u1", channel |-> "telegram", chat_id |-> "c1", text |-> <<"h", "i">>]
    ELSE [global_user_id |-> "u2", channel |-> "vk", chat_id |-> "c2", text |-> <<"y", "o">>]

\* SessionContext(global_user_id=..., channel=msg.channel, chat_id=msg.chat_id, ...)
SessionOf(p) ==
    [global_user_id |-> MessageOf(p).global_user_id,
     channel |-> MessageOf(p).channel,
     chat_id |-> MessageOf(p).chat_id]

\* A module-level variable in place of the ContextVar: set() writes the one
\* cell every task reads.
SetCurrentSessionShared(cs, task, ctx) == [t \in DOMAIN cs |-> ctx]

\* set_current_session: _current_session.set(ctx) in the context of the
\* task; the token holds the value before it.
SetCurrentSession(cs, task, ctx) == [cs EXCEPT ![task] = ctx]

\* get_current_session
GetCurrentSession(cs, task) == cs[task]

\* reset_current_session(token)
ResetCurrentSession(cs, task, token) == [cs EXCEPT ![task] = token]

\* reset_current_session(token) after the try block, not in a finally: an
\* exception of generate skips it.
ResetAfterTry(cs, task, token, end) ==
    IF end = "text" THEN ResetCurrentSession(cs, task, token) ELSE cs

\* try: generate(...) / finally: reset_current_session(token), whatever the
\* end of generate.
ResetFinally(cs, task, token, end) == ResetCurrentSession(cs, task, token)

\* ---------------------------------------------------------------- generate
\* The fixed text of the fallback reply, as one token.
fallback_text == <<"Sorry, technical works are in progress. We will contact you later.">>

\* The tools argument the hub gives generate: none.
HubTools == {}

\* What one responses.create gives: an API error, output items of type
\* tool_call, a final output_text, or neither.
ProviderResponses ==
    {[kind |-> "error", name |-> "", text |-> <<>>],
     [kind |-> "tool_calls", name |-> "messaging_send_text", text |-> <<>>],
     [kind |-> "text", name |-> "", text |-> <<"r", "e">>],
     [kind |-> "no_text", name |-> "", text |-> <<>>]}

\* What `tool.executor(arguments or {})` does for the tool call of a response:
\* exec_map holds no tool of that name, the executor returns, or it raises.
ExecutorOutcomes(tools, name) ==
    IF name \in tools THEN {"returned", "raised"} ELSE {"unknown"}

\* The message appended to history for a tool call: the result of the
\* executor, or {"error": f"unknown tool: {name}"}.
ToolMessage(name, call_id, outcome) ==
    [role |-> "tool", name |-> name, tool_call_id |-> call_id,
     content |-> IF outcome = "unknown" THEN <<"error", "unknown tool: ", name>>
                 ELSE <<"result of ", name>>]

\* `tool_result = await tool.executor(arguments or {})` stands outside any
\* try: the exception of the executor leaves generate.
ExecutorRaised(outcome) == outcome = "raised"

\* getattr(self._assistant, "last_events", []) or []: OpenAIManager never
\* assigns last_events.
last_events == <<>>

\* The position of the call_id among the keys of the dict calls, 0 if absent.
CallIndex(recs, cid) ==
    IF \E i \in DOMAIN recs : recs[i].call_id = cid
    THEN CHOOSE i \in DOMAIN recs : recs[i].call_id = cid
    ELSE 0

\* The dict calls of the hub after the events: a tool_call event sets the
\* entry of its call_id, a tool_output event sets the output of the entry.
RECURSIVE PairEvents(_, _)
PairEvents(events, recs) ==
    IF events = <<>> THEN recs
    ELSE LET ev == Head(events)
             i == CallIndex(recs, ev.call_id)
             fresh == [call_id |-> ev.call_id, name |-> "", arguments |-> <<>>,
                       output |-> <<>>]
         IN  IF ev.type = "tool_call"
             THEN LET rec == [fresh EXCEPT !.name = ev.name, !.arguments = ev.arguments]
                  IN  PairEvents(Tail(events),
                                 IF i = 0 THEN Append(recs, rec) ELSE [recs EXCEPT ![i] = rec])
             ELSE IF ev.type = "tool_output"
             THEN PairEvents(Tail(events),
                             IF i = 0 THEN Append(recs, [fresh EXCEPT !.output = ev.output])
                             ELSE [recs EXCEPT ![i].output = ev.output])
             ELSE PairEvents(Tail(events), recs)

\* The ToolInvocation records the hub saves for the events of a pass.
ToolInvocations(events) == PairEvents(events, <<>>)

\* for _ in range(max_rounds) with one more iteration.
RoundsLeftOneMore(round) == round <= max_rounds

\* for _ in range(max_rounds): another iteration begins.
RoundsLeft(round) == round < max_rounds

\* How generate ends after the response of a round, or "continue": it raises
\* on an API error, on a response without tool calls and without text, and
\* after the last round of tool calls; it returns the text otherwise.
GenerateRoundEnd(resp, round) ==
    IF resp.kind = "error" THEN "raised"
    ELSE IF resp.kind = "tool_calls"
    THEN IF RoundsLeft(round + 1) THEN "continue" ELSE "exhausted"
    ELSE IF resp.kind = "no_text" THEN "no_text"
    ELSE "text"

\* The hub with an except branch that only logs.
AfterGenerateSwallow(gen) == IF gen = "text" THEN "save_ai" ELSE "done"

\* try: ... generate ... / except Exception: the fallback branch.
AfterGenerate(gen) == IF gen = "text" THEN "save_ai" ELSE "fallback_save"

\* --------------------------------------------------------------------- hub
\* The channels of Hub._connectors.
Connectors == {"telegram", "vk"}

\* _find_connector_for_channel(channel) is not None
ConnectorFound(channel) == channel \in Connectors

\* The early returns of _handle_tool_send_text, or <<>> to go on.
SendTextCheck(session, text) ==
    IF ~ConnectorFound(session.channel) THEN <<"connector_not_available">>
    ELSE IF Strip(text) = <<>> THEN <<"invalid_text">>
    ELSE <<>>

\* What a storage operation or a connector call does.
Outcomes == {"ok", "raise"}

IdlePass ==
    [pc |-> "idle", session |-> NoSession, token |-> NoSession, crm |-> "none",
     lead_context |-> "none", caller |-> "hub", tools |-> {}, history |-> <<>>,
     tool_invocations |-> <<>>, text |-> <<>>, typing |-> "none", round |-> 0, requests |-> 0, gen |-> "none", ai_text |-> <<>>,
     path |-> "none", send_result |-> <<>>, error |-> "none"]

\* The exception leaves on_incoming_message.
Escaped(p, what) == [passes[p] EXCEPT !.pc = "escaped", !.error = what]

\* A connector calls on_incoming_message.
PassBegin(p) ==
    /\ passes[p].pc = "idle"
    /\ passes' = [passes EXCEPT ![p].pc = "upsert"]
    /\ UNCHANGED <<assistant, crm_service, prompt_exists, current_session,
                   messages, ai_responses, outbox>>
    /\ HubFrame

\* await upsert_contact(...), then the SessionContext.
PassUpsert(p) ==
    /\ passes[p].pc = "upsert"
    /\ \E o \in Outcomes :
         passes' = [passes EXCEPT ![p] =
            IF o = "raise" THEN Escaped(p, "upsert_contact")
            ELSE [@ EXCEPT !.session = SessionOf(p),
                           !.pc = IF crm_service THEN "crm" ELSE "save_inbound"]]
    /\ UNCHANGED <<assistant, crm_service, prompt_exists, current_session,
                   messages, ai_responses, outbox>>
    /\ HubFrame

\* What the two CRM calls of a pass do: both return, ensure_contact_and_lead
\* raises, or get_lead_context raises.
CrmOutcomes == {"ok", "ensure_raised", "context_raised"}

\* The two CRM calls without the try / except around them: their exception
\* leaves on_incoming_message.
AfterCrmNoExcept(pass, o) ==
    IF o = "ok"
    THEN [pass EXCEPT !.crm = o, !.lead_context = "present", !.pc = "save_inbound"]
    ELSE [pass EXCEPT !.crm = o, !.pc = "escaped", !.error = o]

\* The pass after the two CRM calls: `except Exception` logs the error and
\* sets lead_context = None, and the pass goes on to save_message.
AfterCrm(pass, o) ==
    [pass EXCEPT !.crm = o,
                 !.lead_context = IF o = "ok" THEN "present" ELSE "none",
                 !.pc = "save_inbound"]

\* ensure_contact_and_lead and get_lead_context inside try / except Exception.
PassCrm(p) ==
    /\ passes[p].pc = "crm"
    /\ \E o \in CrmOutcomes :
         passes' = [passes EXCEPT ![p] = AfterCrm(passes[p], o)]
    /\ UNCHANGED <<assistant, crm_service, prompt_exists, current_session,
                   messages, ai_responses, outbox>>
    /\ HubFrame

\* await save_message(inbound), then the check of system_prompt.md.
PassSaveInbound(p) ==
    /\ passes[p].pc = "save_inbound"
    /\ \E o \in Outcomes :
         IF o = "raise"
         THEN /\ passes' = [passes EXCEPT ![p] = Escaped(p, "save_message")]
              /\ UNCHANGED messages
         ELSE /\ messages' = Append(messages,
                    [global_user_id |-> passes[p].session.global_user_id,
                     direction |-> "inbound", text |-> MessageOf(p).text])
              /\ passes' = [passes EXCEPT ![p] =
                    IF prompt_exists THEN [@ EXCEPT !.pc = "history"]
                    ELSE Escaped(p, "FileNotFoundError")]
    /\ UNCHANGED <<assistant, crm_service, prompt_exists, current_session,
                   ai_responses, outbox>>
    /\ HubFrame

\* await get_all_messages inside try / except, then either the branch of
\* `self._assistant is None` or set_current_session and the call of generate.
PassHistory(p) ==
    /\ passes[p].pc = "history"
    /\ \E o \in Outcomes :
         IF assistant
         THEN /\ passes' = [passes EXCEPT ![p].pc = "generate",
                                          ![p].tools = HubTools,
                                          ![p].token = GetCurrentSession(current_session, p)]
              /\ current_session' = SetCurrentSession(current_session, p, passes[p].session)
         ELSE /\ passes' = [passes EXCEPT ![p].pc = "fallback_save", ![p].path = "fallback"]
              /\ UNCHANGED current_session
    /\ UNCHANGED <<assistant, crm_service, prompt_exists, messages, ai_responses, outbox>>
    /\ HubFrame

\* A caller other than the hub awaits generate(messages=..., tools=tools).
GenerateCall(p, tools) ==
    /\ passes[p].pc = "idle"
    /\ passes' = [passes EXCEPT ![p].pc = "generate", ![p].caller = "direct",
                                ![p].tools = tools]
    /\ UNCHANGED <<assistant, crm_service, prompt_exists, current_session,
                   messages, ai_responses, outbox>>
    /\ HubFrame

\* One round of generate: responses.create, the tool call of the response
\* (run by its executor when exec_map holds its name, answered with
\* "unknown tool" otherwise) and its message in history, and the end of
\* generate with `finally: reset_current_session(token)` in the hub.
GenerateRound(p) ==
    /\ passes[p].pc = "generate"
    /\ RoundsLeft(passes[p].round)
    /\ \E resp \in ProviderResponses :
       \E outcome \in ExecutorOutcomes(passes[p].tools, resp.name) :
         LET called == resp.kind = "tool_calls"
             end == IF called /\ ExecutorRaised(outcome) THEN "executor_raised"
                    ELSE GenerateRoundEnd(resp, passes[p].round)
             history == IF called /\ end # "executor_raised"
                        THEN Append(passes[p].history,
                                    ToolMessage(resp.name, passes[p].round + 1, outcome))
                        ELSE passes[p].history
         IN
         IF end = "continue"
         THEN /\ passes' = [passes EXCEPT ![p].round = @ + 1, ![p].requests = @ + 1,
                                          ![p].history = history]
              /\ UNCHANGED current_session
         ELSE /\ passes' = [passes EXCEPT
                    ![p].round = IF called /\ end # "executor_raised" THEN @ + 1 ELSE @,
                    ![p].requests = @ + 1,
                    ![p].history = history,
                    ![p].gen = end,
                    ![p].ai_text = resp.text,
                    ![p].path = IF passes[p].caller # "hub" THEN "none"
                                ELSE IF AfterGenerate(end) = "save_ai" THEN "ai"
                                ELSE "fallback",
                    ![p].pc = IF passes[p].caller = "hub" THEN AfterGenerate(end) ELSE "done"]
              /\ current_session' =
                    IF passes[p].caller = "hub"
                    THEN ResetFinally(current_session, p, passes[p].token, end)
                    ELSE current_session
    /\ UNCHANGED <<assistant, crm_service, prompt_exists, messages, ai_responses, outbox>>
    /\ HubFrame

\* A hub that delivers the text of the loop itself once it is saved.
AfterSaveAiPush(o) == IF o = "raise" THEN "fallback_save" ELSE "typing"

\* Where the pass goes after save_ai_response(ai_text): its exception is
\* caught by the except of the try block, the fallback branch; otherwise the
\* pass ends without a send.
AfterSaveAi(o) == IF o = "raise" THEN "fallback_save" ELSE "done"

\* await save_ai_response(ai_text) inside the try block, then one
\* save_tool_invocation per entry of the dict built from the events.
PassSaveAi(p) ==
    /\ passes[p].pc = "save_ai"
    /\ \E o \in Outcomes :
         IF o = "raise"
         THEN /\ passes' = [passes EXCEPT ![p].pc = AfterSaveAi(o), ![p].path = "fallback"]
              /\ UNCHANGED ai_responses
         ELSE /\ ai_responses' = Append(ai_responses,
                    [global_user_id |-> passes[p].session.global_user_id,
                     text |-> passes[p].ai_text])
              /\ passes' = [passes EXCEPT ![p].pc = AfterSaveAi(o),
                                          ![p].text = passes[p].ai_text,
                                          ![p].tool_invocations = ToolInvocations(last_events)]
    /\ UNCHANGED <<assistant, crm_service, prompt_exists, current_session, messages, outbox>>
    /\ HubFrame

\* await save_ai_response(fallback text), then _handle_tool_send_text up to
\* its first await.
PassFallbackSave(p) ==
    /\ passes[p].pc = "fallback_save"
    /\ \E o \in Outcomes :
         IF o = "raise"
         THEN /\ passes' = [passes EXCEPT ![p] = Escaped(p, "save_ai_response")]
              /\ UNCHANGED ai_responses
         ELSE /\ ai_responses' = Append(ai_responses,
                    [global_user_id |-> passes[p].session.global_user_id,
                     text |-> fallback_text])
              /\ passes' = [passes EXCEPT ![p] =
                    IF SendTextCheck(passes[p].session, fallback_text) = <<>>
                    THEN [@ EXCEPT !.pc = "typing", !.text = fallback_text]
                    ELSE [@ EXCEPT !.pc = "done", !.text = fallback_text,
                                   !.send_result = SendTextCheck(passes[p].session, fallback_text)]]
    /\ UNCHANGED <<assistant, crm_service, prompt_exists, current_session, messages, outbox>>
    /\ HubFrame

\* simulate_typing outside a try block: its exception ends the call.
AfterTypingAbort(o) == IF o = "raise" THEN "done" ELSE "send"

\* try: simulate_typing / except Exception: a warning, and the send follows.
AfterTyping(o) == "send"

\* _handle_tool_send_text(session, SendTextRequest(text)) called by a task,
\* up to its first await.
SendTextCall(p, session, text) ==
    /\ passes[p].pc = "idle"
    /\ passes' = [passes EXCEPT ![p] =
            [IdlePass EXCEPT !.caller = "direct", !.session = session, !.text = text,
                             !.pc = IF SendTextCheck(session, text) = <<>>
                                    THEN "typing" ELSE "done",
                             !.send_result = SendTextCheck(session, text)]]
    /\ UNCHANGED <<assistant, crm_service, prompt_exists, current_session,
                   messages, ai_responses, outbox>>
    /\ HubFrame

\* await connector.simulate_typing inside try / except; its outcome is
\* kept for a call made by a task itself.
SendTextTyping(p) ==
    /\ passes[p].pc = "typing"
    /\ \E o \in Outcomes :
         passes' = [passes EXCEPT ![p].pc = AfterTyping(o),
                                  ![p].typing = IF passes[p].caller = "direct" THEN o ELSE @]
    /\ UNCHANGED <<assistant, crm_service, prompt_exists, current_session,
                   messages, ai_responses, outbox>>
    /\ HubFrame

\* await connector.send_message; f"send_failed: {exc}" when it raises.
SendTextSend(p) ==
    /\ passes[p].pc = "send"
    /\ \E o \in Outcomes :
         IF o = "raise"
         THEN /\ passes' = [passes EXCEPT ![p].pc = "done",
                                          ![p].send_result = <<"send_failed: ", "exc">>]
              /\ UNCHANGED outbox
         ELSE /\ outbox' = Append(outbox, [chat_id |-> passes[p].session.chat_id,
                                       text |-> Strip(passes[p].text)])
              /\ passes' = [passes EXCEPT ![p].pc = "save_outbound"]
    /\ UNCHANGED <<assistant, crm_service, prompt_exists, current_session,
                   messages, ai_responses>>
    /\ HubFrame

\* await save_message(outbound) and the return of "ok".
SendTextSave(p) ==
    /\ passes[p].pc = "save_outbound"
    /\ \E o \in Outcomes :
         IF o = "raise"
         THEN /\ passes' = [passes EXCEPT ![p] = Escaped(p, "save_message")]
              /\ UNCHANGED messages
         ELSE /\ messages' = Append(messages,
                    [global_user_id |-> passes[p].session.global_user_id,
                     direction |-> "outbound", text |-> Strip(passes[p].text)])
              /\ passes' = [passes EXCEPT ![p].pc = "done", ![p].send_result = <<"ok">>]
    /\ UNCHANGED <<assistant, crm_service, prompt_exists, current_session,
                   ai_responses, outbox>>
    /\ HubFrame

\* ------------------------------------------------------------------ inputs
StageIdInputs == {StatusOfIndex(i) : i \in 0..(MaxStages - 1)} \cup {UnknownStatus, None}

QuestionInputs == {QuestionOfIndex(i) : i \in 0..(MaxStages - 1)} \cup {UnknownQuestion, None}

ValueInputs ==
    {<<StrValue(<<Blank>>)>>,
     <<StrValue(<<"a">>), StrValue(<<Blank>>), StrValue(<<"b", Blank>>)>>}

AnswerInputs == [question_id : QuestionInputs, values : ValueInputs]

AnswersInputs == UNION {[1..n -> AnswerInputs] : n \in 0..MaxAnswers}

\* The rows crm_bindings may hold for the user when the calls begin: none,
\* a row without a lead, a row with the lead id 0 that _create_lead stores
\* for an empty response, and a row with a lead at each status.
BindingInputs ==
    {NoRow,
     [exists |-> TRUE, contact_id |-> 5, lead_id |-> None, lead_status_id |-> None],
     [exists |-> TRUE, contact_id |-> 5, lead_id |-> 0, lead_status_id |-> StatusOfIndex(0)]}
    \cup
    [exists : {TRUE}, contact_id : {5}, lead_id : {7},
     lead_status_id : {StatusOfIndex(i) : i \in 0..(MaxStages - 1)} \cup {UnknownStatus, None}]

\* ------------------------------------------------------------ tool handlers
\* The task the handlers run in, and the caller of its funnel calls.
HandlerTask == "m1"
HandlerCaller == "a"

\* The tools whose handlers need the session.
SessionTools == {"messaging_send_text", "amocrm_update_lead_fields", "amocrm_set_lead_stage"}

\* The args a handler is given: a text with isinstance(text, str), answers
\* with isinstance(answers, list), and a stage_id (None: not an int).
NoArgs ==
    [text |-> <<>>, text_is_str |-> FALSE, answers |-> <<>>, answers_is_list |-> FALSE,
     stage_id |-> None]

\* The args of each handler, tried one after another.
HandlerArgs(name) ==
    IF name = "messaging_send_text"
    THEN << NoArgs,
            [NoArgs EXCEPT !.text_is_str = TRUE, !.text = <<Blank>>],
            [NoArgs EXCEPT !.text_is_str = TRUE, !.text = <<"h", "i", Blank>>] >>
    ELSE IF name = "amocrm_update_lead_fields"
    THEN << NoArgs,
            [NoArgs EXCEPT !.answers_is_list = TRUE],
            [NoArgs EXCEPT !.answers_is_list = TRUE, !.answers =
                <<[question_id |-> QuestionOfIndex(0), values |-> <<StrValue(<<"a">>)>>]>>],
            [NoArgs EXCEPT !.answers_is_list = TRUE, !.answers =
                <<[question_id |-> QuestionOfIndex(1), values |-> <<StrValue(<<"a">>)>>]>>] >>
    ELSE << NoArgs,
            [NoArgs EXCEPT !.stage_id = StatusOfIndex(0)],
            [NoArgs EXCEPT !.stage_id = StatusOfIndex(1)],
            [NoArgs EXCEPT !.stage_id = UnknownStatus] >>

IdleHandler ==
    [pc |-> "idle", name |-> "", args |-> NoArgs, result |-> <<>>, raised |-> FALSE]

\* _send_text_message_handler without its check of the session.
SendTextHandlerCheckNoSession(actions, session, is_str, text) ==
    IF ~actions THEN "messaging_not_configured"
    ELSE IF ~is_str \/ Strip(text) = <<>> THEN "invalid_text"
    ELSE "proceed"

\* _send_text_message_handler up to its call of actions.send_text.
SendTextHandlerCheck(actions, session, is_str, text) ==
    IF ~actions THEN "messaging_not_configured"
    ELSE IF session = NoSession THEN "session_not_found"
    ELSE IF ~is_str \/ Strip(text) = <<>> THEN "invalid_text"
    ELSE "proceed"

\* _amocrm_update_fields_handler up to its call of update_lead_fields.
UpdateFieldsHandlerCheck(service, session, is_list) ==
    IF ~service THEN "amocrm_not_configured"
    ELSE IF session = NoSession THEN "session_not_found"
    ELSE IF ~is_list THEN "invalid_arguments"
    ELSE "proceed"

\* _amocrm_advance_stage_handler up to its call of change_lead_stage.
AdvanceStageHandlerCheck(service, session, stage_id) ==
    IF ~service THEN "amocrm_not_configured"
    ELSE IF session = NoSession THEN "session_not_found"
    ELSE IF stage_id = None THEN "invalid_stage"
    ELSE "proceed"

\* The check of the handler with the name.
HandlerCheck(name, session, args) ==
    IF name = "messaging_send_text"
    THEN SendTextHandlerCheck(MESSAGING_ACTIONS, session, args.text_is_str, args.text)
    ELSE IF name = "amocrm_update_lead_fields"
    THEN UpdateFieldsHandlerCheck(amocrm_service, session, args.answers_is_list)
    ELSE AdvanceStageHandlerCheck(amocrm_service, session, args.stage_id)

\* A handler is awaited with args and runs up to its first call of a
\* collaborator, or to its early return.
HandlerBegin(name, args) ==
    /\ handlerRun.pc = "idle"
    /\ handlerRuns < MaxHandlerRuns
    /\ handlerRuns' = handlerRuns + 1
    /\ LET check == HandlerCheck(name, GetCurrentSession(current_session, HandlerTask), args)
       IN  handlerRun' =
             IF check # "proceed"
             THEN [IdleHandler EXCEPT !.pc = "done", !.name = name, !.args = args,
                                      !.result = <<check>>]
             ELSE [IdleHandler EXCEPT !.name = name, !.args = args,
                                      !.pc = IF name = "messaging_send_text"
                                             THEN "send_text" ELSE "crm_call"]
    /\ UNCHANGED <<crm_bindings, stageVars, messages, outbox>>
    /\ HandlerFrame

\* await actions.send_text(session, request): _handle_tool_send_text, whose
\* exception the handler turns into f"tool_error: {exc}".
HandlerSendText ==
    /\ handlerRun.pc = "send_text"
    /\ LET session == GetCurrentSession(current_session, HandlerTask)
           text == handlerRun.args.text
           check == SendTextCheck(session, text)
       IN  \E sending \in Outcomes : \E saving \in Outcomes :
            IF check # <<>>
            THEN /\ handlerRun' = [handlerRun EXCEPT !.pc = "done", !.result = check]
                 /\ UNCHANGED <<messages, outbox>>
            ELSE IF sending = "raise"
            THEN /\ handlerRun' = [handlerRun EXCEPT !.pc = "done",
                                                     !.result = <<"send_failed: ", "exc">>]
                 /\ UNCHANGED <<messages, outbox>>
            ELSE /\ outbox' = Append(outbox, [chat_id |-> session.chat_id, text |-> Strip(text)])
                 /\ IF saving = "raise"
                    THEN /\ handlerRun' = [handlerRun EXCEPT !.pc = "done",
                                                             !.result = <<"tool_error: ", "exc">>]
                         /\ UNCHANGED messages
                    ELSE /\ handlerRun' = [handlerRun EXCEPT !.pc = "done", !.result = <<"ok">>]
                         /\ messages' = Append(messages,
                                [global_user_id |-> session.global_user_id,
                                 direction |-> "outbound", text |-> Strip(text)])
    /\ UNCHANGED <<crm_bindings, stageVars, handlerRuns>>
    /\ HandlerFrame

\* The funnel call of a CRM handler begins.
HandlerCrmCall ==
    /\ handlerRun.pc = "crm_call"
    /\ IF handlerRun.name = "amocrm_update_lead_fields"
       THEN UpdateLeadFieldsRead(HandlerCaller, handlerRun.args.answers)
       ELSE ChangeLeadStageRead(HandlerCaller, handlerRun.args.stage_id)

\* The funnel call has ended: its error leaves the handler, its result other
\* than "ok" is returned, and after "ok" build_stage_snapshot gives the
\* snapshot or raises the error of its lead fetch.
HandlerCrmResult ==
    /\ handlerRun.pc = "crm_call"
    /\ calls[HandlerCaller].pc = "done"
    /\ \E snapshot \in Outcomes :
        handlerRun' =
            IF calls[HandlerCaller].result = <<"raised">>
            THEN [handlerRun EXCEPT !.pc = "done", !.raised = TRUE]
            ELSE IF calls[HandlerCaller].result # <<"ok">>
            THEN [handlerRun EXCEPT !.pc = "done", !.result = calls[HandlerCaller].result]
            ELSE IF snapshot = "raise"
            THEN [handlerRun EXCEPT !.pc = "done", !.raised = TRUE]
            ELSE [handlerRun EXCEPT !.pc = "done", !.result = <<"snapshot">>]
    /\ calls' = [calls EXCEPT ![HandlerCaller] = IdleCall]
    /\ UNCHANGED <<crm_bindings, crmLeadStatus, messages, outbox, handlerRuns>>
    /\ HandlerFrame

\* The caller of the handler takes its result or its exception.
HandlerReturn ==
    /\ handlerRun.pc = "done"
    /\ handlerRun' = IdleHandler
    /\ UNCHANGED <<crm_bindings, stageVars, messages, outbox, handlerRuns>>
    /\ HandlerFrame

\* ------------------------------------------------------------ value calls
\* Values in one answer given to _build_custom_field_values.
MaxValues == 2

NoQuestion == [id |-> None, type |-> "text", enums |-> <<>>]

IdleValueCall ==
    [pc |-> "idle", op |-> "none", question |-> NoQuestion, raw_values |-> <<>>,
     match |-> None, result |-> <<>>]

\* The options of the select and multiselect questions of questions.json.
EnumInputs ==
    <<[id |-> 10, value |-> <<"Y", "e", "s">>],
      [id |-> 11, value |-> <<"N", "o">>],
      [id |-> 12, value |-> <<"7">>]>>

\* A question of each kind of type.
TypedQuestions ==
    {[id |-> QuestionOfIndex(0), type |-> "select", enums |-> EnumInputs],
     [id |-> QuestionOfIndex(0), type |-> "multiselect", enums |-> EnumInputs],
     [id |-> QuestionOfIndex(0), type |-> "text", enums |-> <<>>]}

\* The candidates an answer may hold.
CandidateInputs ==
    {NoneValue, IntValue(10), IntValue(11), IntValue(99), FloatValue(10), DictIdValue(10),
     DictTextValue(<<"y", "e", "s">>),
     StrValue(<<"1", "0">>), StrValue(<<Blank, "1", "0", Blank>>),
     StrValue(<<"y", "e", "s">>), StrValue(<<Blank, "Y", "E", "S", Blank>>),
     StrValue(<<"N", "o">>), StrValue(<<"m", "a", "y", "b", "e">>),
     StrValue(<<"7">>), StrValue(<<>>), StrValue(<<Blank>>)}

RawValuesInputs == UNION {[1..n -> CandidateInputs] : n \in 0..MaxValues}

\* _resolve_enum_id(question, raw_value) is called.
ResolveEnumIdCall(question, raw_value) ==
    /\ valueCall.pc = "idle"
    /\ valueCall' = [IdleValueCall EXCEPT !.pc = "done", !.op = "_resolve_enum_id",
                                          !.question = question,
                                          !.raw_values = <<raw_value>>,
                                          !.match = ResolveEnumId(question, raw_value)]
    /\ ValueFrame

\* _build_custom_field_values(question, raw_values) is called.
BuildCustomFieldValuesCall(question, raw_values) ==
    /\ valueCall.pc = "idle"
    /\ valueCall' = [IdleValueCall EXCEPT !.pc = "done",
                                          !.op = "_build_custom_field_values",
                                          !.question = question,
                                          !.raw_values = raw_values,
                                          !.result = BuildCustomFieldValues(question, raw_values)]
    /\ ValueFrame

\* The caller takes the result.
ValueCallReturn ==
    /\ valueCall.pc = "done"
    /\ valueCall' = IdleValueCall
    /\ ValueFrame

InitFunnel ==
    \E shape \in FunnelShapes :
        /\ stage_ids = CreateStageIds(shape[1])
        /\ stages = CreateStages(shape[1], shape[2])

\* No ensure_contact_and_lead call has been made.
InitEnsureIdle ==
    /\ ens = [t \in EnsureTasks |-> IdleEnsure]
    /\ bindingLock = "none"
    /\ crmContacts = 0
    /\ crmLeads = 0
    /\ crmAllCreated = TRUE
    /\ ensBegun = 0

\* An empty contacts table and no upsert_contact call.
InitUpsertIdle ==
    /\ contacts = {}
    /\ storageLock = "none"
    /\ ups = [t \in UpsertTasks |-> IdleUpsert]
    /\ uuids = 0
    /\ returned = [k \in ContactKeys |-> {}]
    /\ createdCount = [k \in ContactKeys |-> 0]

\* The registry after import and no call_tool call.
InitToolIdle ==
    /\ TOOLS = RegisteredAtImport
    /\ toolCall = IdleToolCall
    /\ handlerRuns = 0
    /\ toolLog = <<>>

\* A hub with everything configured and no message received.
InitHubIdle ==
    /\ assistant = TRUE
    /\ crm_service = TRUE
    /\ prompt_exists = TRUE
    /\ passes = [p \in PassTasks |-> IdlePass]
    /\ current_session = [p \in PassTasks |-> NoSession]
    /\ messages = <<>>
    /\ ai_responses = <<>>
    /\ outbox = <<>>

\* An empty table crm_bindings and no set_crm_binding call.
InitTableIdle ==
    /\ binding_table = {}
    /\ bindingLog = <<>>

\* -------------------------------------------------------- VK long poll
\* The updates that the long-poll server of one community holds at most.
MaxUpdates == 3

\* The types of the events of a community.
UpdateTypes == {"message_new", "message_reply"}

\* _run_long_poll before its first request: the server holds no event and
\* groups.getLongPollServer has given ts = 0. events[i] is the type of event
\* i; updates is data["updates"] still to be handled, as event numbers;
\* delivered are the message_new events that a response has carried; started
\* and ended are the on_message calls made and finished, in order.
IdleLongPoll ==
    [pc |-> "poll", events |-> <<>>, ts |-> 0, updates |-> <<>>,
     delivered |-> <<>>, started |-> <<>>, ended |-> <<>>]

LongPollFrame ==
    UNCHANGED <<funnelVars, crm_bindings, stageVars, ensureVars, upsertVars, toolVars,
                hubVars, tableVars, handlerVars, valueCall>>

\* The event numbers from + 1 .. to, in order.
RECURSIVE EventsFrom(_, _)
EventsFrom(from, to) ==
    IF from >= to THEN <<>> ELSE <<from + 1>> \o EventsFrom(from + 1, to)

\* The events of the sequence ids that are of type message_new.
RECURSIVE MessagesOf(_, _)
MessagesOf(events, ids) ==
    IF ids = <<>> THEN <<>>
    ELSE (IF events[Head(ids)] = "message_new" THEN <<Head(ids)>> ELSE <<>>)
         \o MessagesOf(events, Tail(ids))

\* A user of the community writes, or another event happens: the server
\* appends it to its history.
ServerEvent(type) ==
    /\ Len(longPoll.events) < MaxUpdates
    /\ longPoll' = [longPoll EXCEPT !.events = Append(@, type)]
    /\ LongPollFrame

\* What the a_check request does: a response with updates, a response with
\* the key "failed", or an exception of the client or of raise_for_status.
PollOutcomes == {"updates", "failed", "raise"}

\* After the response with updates: lp_params["ts"] = data["ts"] is set before
\* the for loop over the updates runs.
AfterCheck(lp) ==
    [lp EXCEPT !.pc = "updates",
               !.ts = Len(lp.events),
               !.updates = EventsFrom(lp.ts, Len(lp.events)),
               !.delivered = @ \o MessagesOf(lp.events, EventsFrom(lp.ts, Len(lp.events)))]

\* r = await self._client.get(server, params=lp_params) and what follows up
\* to the for loop.
LongPollCheck ==
    /\ longPoll.pc = "poll"
    /\ \E o \in PollOutcomes :
         longPoll' =
            IF o = "updates" THEN AfterCheck(longPoll)
            ELSE IF o = "failed"
            THEN [longPoll EXCEPT !.ts = Len(longPoll.events)]
            ELSE [longPoll EXCEPT !.pc = "recover"]
    /\ LongPollFrame

\* One turn of `for upd in updates`: an update of another type is passed
\* over, for a message_new the IncomingMessage is built and on_message called.
LongPollUpdate ==
    /\ longPoll.pc = "updates"
    /\ longPoll' =
         IF longPoll.updates = <<>> THEN [longPoll EXCEPT !.pc = "poll"]
         ELSE IF longPoll.events[Head(longPoll.updates)] # "message_new"
         THEN [longPoll EXCEPT !.updates = Tail(@)]
         ELSE [longPoll EXCEPT !.pc = "on_message",
                               !.started = Append(@, Head(longPoll.updates))]
    /\ LongPollFrame

\* How on_incoming_message ends: it returns, or an exception leaves it
\* (of upsert_contact, of save_message, of the read of system_prompt.md or
\* of save_ai_response).
PassEnds == {"done", "escaped"}

\* The loop after `await self._on_message(incoming)`: the next update when
\* the call returned, `except Exception` when it raised.
AfterOnMessage(lp, end) ==
    [lp EXCEPT !.pc = IF end = "done" THEN "updates" ELSE "recover",
               !.updates = Tail(@),
               !.ended = Append(@, [id |-> Head(lp.updates), end |-> end])]

\* await self._on_message(incoming) comes back.
LongPollOnMessage ==
    /\ longPoll.pc = "on_message"
    /\ \E end \in PassEnds : longPoll' = AfterOnMessage(longPoll, end)
    /\ LongPollFrame

\* except Exception: sleep, then _get_long_poll_server gives the ts of the
\* newest event, or raises and lp_params keeps the ts it has. The while loop
\* goes to the next request; the updates left of the response are dropped.
LongPollRecover ==
    /\ longPoll.pc = "recover"
    /\ \E o \in Outcomes :
         longPoll' = [longPoll EXCEPT
            !.pc = "poll",
            !.updates = <<>>,
            !.ts = IF o = "ok" THEN Len(longPoll.events) ELSE @]
    /\ LongPollFrame

\* Messaging actions and CRM service set, no handler running.
InitHandlerIdle ==
    /\ MESSAGING_ACTIONS = TRUE
    /\ amocrm_service = TRUE
    /\ handlerRun = IdleHandler
    /\ valueCall = IdleValueCall
    /\ longPoll = IdleLongPoll

\* No funnel call has been made.
InitCallsIdle == calls = [c \in StageCallers |-> IdleCall]

InitStage ==
    /\ InitTableIdle
    /\ InitHandlerIdle
    /\ InitFunnel
    /\ InitToolIdle
    /\ InitHubIdle
    /\ InitEnsureIdle
    /\ InitUpsertIdle
    /\ \E row \in BindingInputs :
        /\ crm_bindings = [u \in Users |-> IF u = TheUser THEN row ELSE NoRow]
        /\ crmLeadStatus = IF Truthy(row.lead_id) THEN row.lead_status_id ELSE None
    /\ calls = [c \in StageCallers |-> IdleCall]

NoCallInFlight == \A c \in StageCallers : calls[c].pc = "idle"

\* change_lead_stage calls made one after another.
NextStage ==
    \E c \in StageCallers :
        \/ \E stage_id \in StageIdInputs : NoCallInFlight /\ ChangeLeadStageRead(c, stage_id)
        \/ ChangeLeadStagePatch(c)
        \/ ChangeLeadStageWrite(c)
        \/ CallReturn(c)

SpecStage == InitStage /\ [][NextStage]_vars

\* update_lead_fields calls made one after another by one caller.
NextFields ==
    \/ \E answers \in AnswersInputs : UpdateLeadFieldsRead("a", answers)
    \/ UpdateLeadFieldsPatch("a")
    \/ CallReturn("a")

SpecFields == InitStage /\ [][NextFields]_vars

\* The options of the select and multiselect questions of the typed funnel.
FunnelEnums ==
    <<[id |-> 5, value |-> <<"D", "a">>], [id |-> 6, value |-> <<"N", "e", "t">>]>>

\* questions.json with a select question at stage 0, a multiselect question
\* at stage 1 and text questions after them.
LoadQuestionTypes(stgs) ==
    [i \in DOMAIN stgs |->
        [stgs[i] EXCEPT !.questions =
            [k \in DOMAIN stgs[i].questions |->
                [stgs[i].questions[k] EXCEPT
                    !.type = IF stgs[i].index = 0 THEN "select"
                             ELSE IF stgs[i].index = 1 THEN "multiselect" ELSE "text",
                    !.enums = IF stgs[i].index <= 1 THEN FunnelEnums ELSE <<>>]]]]

\* The values of an answer to a typed question: the text of option 5 in
\* another case and with blanks, a blank, a free text followed by the id of
\* option 6, and no value.
TypedValueInputs ==
    {<<StrValue(<<Blank, "d", "A", Blank>>)>>,
     <<StrValue(<<Blank>>)>>,
     <<StrValue(<<"x">>), IntValue(6)>>,
     <<>>}

TypedAnswerInputs ==
    [question_id : {QuestionOfIndex(0), QuestionOfIndex(1), UnknownQuestion},
     values : TypedValueInputs]

TypedAnswersInputs == UNION {[1..n -> TypedAnswerInputs] : n \in 0..MaxAnswers}

\* The funnel with typed questions and any binding of the user.
InitTypedFields ==
    /\ InitTableIdle
    /\ InitHandlerIdle
    /\ stage_ids = CreateStageIds(MaxStages)
    /\ stages = LoadQuestionTypes(CreateStages(MaxStages, MaxStages))
    /\ InitToolIdle
    /\ InitHubIdle
    /\ InitEnsureIdle
    /\ InitUpsertIdle
    /\ \E row \in BindingInputs :
        /\ crm_bindings = [u \in Users |-> IF u = TheUser THEN row ELSE NoRow]
        /\ crmLeadStatus = IF Truthy(row.lead_id) THEN row.lead_status_id ELSE None
    /\ calls = [c \in StageCallers |-> IdleCall]

\* update_lead_fields calls with answers to typed questions.
NextTypedFields ==
    \/ \E answers \in TypedAnswersInputs : UpdateLeadFieldsRead("a", answers)
    \/ UpdateLeadFieldsPatch("a")
    \/ CallReturn("a")

SpecTypedFields == InitTypedFields /\ [][NextTypedFields]_vars

\* A user the CRM does not know yet.
InitEnsure ==
    /\ InitTableIdle
    /\ InitHandlerIdle
    /\ InitFunnel
    /\ InitToolIdle
    /\ InitHubIdle
    /\ InitEnsureIdle
    /\ InitUpsertIdle
    /\ InitCallsIdle
    /\ crm_bindings = [u \in Users |-> NoRow]
    /\ crmLeadStatus = None

\* ensure_contact_and_lead calls of several tasks for one user.
NextEnsure ==
    \E t \in EnsureTasks :
        \/ EnsureBegin(t)
        \/ EnsureAcquire(t)
        \/ EnsureRead(t)
        \/ EnsureCreateContact(t)
        \/ EnsureCreateLead(t)
        \/ EnsureWrite(t)
        \/ EnsureReread(t)
        \/ EnsureReturn(t)

SpecEnsure == InitEnsure /\ [][NextEnsure]_vars

\* The storage alone, with the funnel of equal sizes loaded.
InitUpsert ==
    /\ InitTableIdle
    /\ InitHandlerIdle
    /\ InitToolIdle
    /\ InitHubIdle
    /\ stage_ids = CreateStageIds(MaxStages)
    /\ stages = CreateStages(MaxStages, MaxStages)
    /\ InitEnsureIdle
    /\ InitCallsIdle
    /\ InitUpsertIdle
    /\ crm_bindings = [u \in Users |-> NoRow]
    /\ crmLeadStatus = None

\* upsert_contact calls of several tasks.
NextUpsert ==
    \E t \in UpsertTasks :
        \/ \E key \in ContactKeys : UpsertBegin(t, key)
        \/ UpsertAcquire(t)
        \/ UpsertSelect(t)
        \/ UpsertInsert(t)
        \/ UpsertCommit(t)
        \/ UpsertReturn(t)

SpecUpsert == InitUpsert /\ [][NextUpsert]_vars

\* ---------------------------------------------------------------- clear_all
\* How many global_user_ids may have been drawn when a clear_all begins.
MaxUuids == 3

\* clear_all is called and waits for Storage._lock.
ClearAllBegin(t) ==
    /\ ups[t].pc = "idle"
    /\ uuids < MaxUuids
    /\ ups' = [ups EXCEPT ![t] = [IdleUpsert EXCEPT !.pc = "clear_lock"]]
    /\ UNCHANGED <<contacts, storageLock, uuids, returned, createdCount>>
    /\ UpsertFrame

\* async with self._lock
ClearAllAcquire(t) ==
    /\ ups[t].pc = "clear_lock"
    /\ LockFree(storageLock)
    /\ storageLock' = t
    /\ ups' = [ups EXCEPT ![t].pc = "clear_script"]
    /\ UNCHANGED <<contacts, uuids, returned, createdCount>>
    /\ UpsertFrame

\* The executescript with the five DELETE statements, the commit and the
\* release of the lock.
ClearAllScript(t) ==
    /\ ups[t].pc = "clear_script"
    /\ contacts' = {}
    /\ crm_bindings' = [u \in Users |-> NoRow]
    /\ messages' = <<>>
    /\ ai_responses' = <<>>
    /\ storageLock' = "none"
    /\ ups' = [ups EXCEPT ![t].pc = "done"]
    /\ UNCHANGED <<uuids, returned, createdCount>>
    /\ UNCHANGED <<funnelVars, stageVars, ensureVars, toolVars, tableVars, handlerVars,
                   valueCall, longPoll, assistant, crm_service, prompt_exists, passes,
                   current_session, outbox>>

\* upsert_contact and clear_all calls of several tasks.
NextStorage ==
    \E t \in UpsertTasks :
        \/ \E key \in ContactKeys : UpsertBegin(t, key)
        \/ UpsertAcquire(t)
        \/ UpsertSelect(t)
        \/ UpsertInsert(t)
        \/ UpsertCommit(t)
        \/ UpsertReturn(t)
        \/ ClearAllBegin(t)
        \/ ClearAllAcquire(t)
        \/ ClearAllScript(t)

SpecStorage == InitUpsert /\ [][NextStorage]_vars

\* The rest of the program at rest, with the funnel of equal sizes loaded.
InitRest ==
    /\ InitTableIdle
    /\ InitHandlerIdle
    /\ stage_ids = CreateStageIds(MaxStages)
    /\ stages = CreateStages(MaxStages, MaxStages)
    /\ InitEnsureIdle
    /\ InitCallsIdle
    /\ InitUpsertIdle
    /\ crm_bindings = [u \in Users |-> NoRow]
    /\ crmLeadStatus = None

\* The arguments of the set_crm_binding calls.
BindingArgs ==
    [contact_id : {None, 5, 6}, lead_id : {None, 7},
     lead_status_id : {None, StatusOfIndex(0), StatusOfIndex(1)}]

InitBinding ==
    /\ InitRest
    /\ InitToolIdle
    /\ InitHubIdle

\* set_crm_binding calls made one after another for any user.
NextBinding ==
    \E u \in Users : \E args \in BindingArgs :
        SetCrmBindingCall(u, args.contact_id, args.lead_id, args.lead_status_id)

SpecBinding == InitBinding /\ [][NextBinding]_vars

\* A task with or without an active session, the collaborators set or not,
\* and any binding of the user.
InitHandlers ==
    /\ stage_ids = CreateStageIds(MaxStages)
    /\ stages = CreateStages(MaxStages, MaxStages)
    /\ InitTableIdle
    /\ InitEnsureIdle
    /\ InitUpsertIdle
    /\ InitToolIdle
    /\ InitCallsIdle
    /\ \E row \in BindingInputs :
        /\ crm_bindings = [u \in Users |-> IF u = TheUser THEN row ELSE NoRow]
        /\ crmLeadStatus = IF Truthy(row.lead_id) THEN row.lead_status_id ELSE None
    /\ assistant = TRUE
    /\ crm_service = TRUE
    /\ prompt_exists = TRUE
    /\ passes = [p \in PassTasks |-> IdlePass]
    /\ \E session \in {NoSession, SessionOf(HandlerTask)} :
        current_session = [p \in PassTasks |-> IF p = HandlerTask THEN session ELSE NoSession]
    /\ messages = <<>>
    /\ ai_responses = <<>>
    /\ outbox = <<>>
    /\ MESSAGING_ACTIONS \in BOOLEAN
    /\ amocrm_service \in BOOLEAN
    /\ handlerRun = IdleHandler
    /\ valueCall = IdleValueCall
    /\ longPoll = IdleLongPoll

\* The handlers that need the session, run one after another in one task.
NextHandlers ==
    \/ \E name \in SessionTools : \E i \in DOMAIN HandlerArgs(name) :
            HandlerBegin(name, HandlerArgs(name)[i])
    \/ HandlerSendText
    \/ HandlerCrmCall
    \/ UpdateLeadFieldsPatch(HandlerCaller)
    \/ ChangeLeadStagePatch(HandlerCaller)
    \/ ChangeLeadStageWrite(HandlerCaller)
    \/ HandlerCrmResult
    \/ HandlerReturn

SpecHandlers == InitHandlers /\ [][NextHandlers]_vars

\* The value helpers called with every question and candidate.
InitValues ==
    /\ InitStage

NextValues ==
    \/ \E question \in TypedQuestions : \E raw_value \in CandidateInputs :
            ResolveEnumIdCall(question, raw_value)
    \/ \E question \in TypedQuestions : \E raw_values \in RawValuesInputs :
            BuildCustomFieldValuesCall(question, raw_values)
    \/ ValueCallReturn

SpecValues == InitValues /\ [][NextValues]_vars

\* The funnels of InitFunnel and the funnel without stages, with any binding.
InitContext ==
    /\ InitTableIdle
    /\ InitHandlerIdle
    /\ \E shape \in FunnelShapes \cup {<<0, 0>>} :
        /\ stage_ids = CreateStageIds(shape[1])
        /\ stages = CreateStages(shape[1], shape[2])
    /\ InitToolIdle
    /\ InitHubIdle
    /\ InitEnsureIdle
    /\ InitUpsertIdle
    /\ \E row \in BindingInputs :
        /\ crm_bindings = [u \in Users |-> IF u = TheUser THEN row ELSE NoRow]
        /\ crmLeadStatus = IF Truthy(row.lead_id) THEN row.lead_status_id ELSE None
    /\ calls = [c \in StageCallers |-> IdleCall]

\* get_lead_context calls of two tasks.
NextContext ==
    \E c \in StageCallers :
        \/ GetLeadContextRead(c)
        \/ GetLeadContextFetch(c)
        \/ CallReturn(c)

SpecContext == InitContext /\ [][NextContext]_vars

\* The registry with or without the tools of register_amocrm_tools.
InitTool ==
    /\ InitRest
    /\ InitHubIdle
    /\ TOOLS \in {RegisteredAtImport, RegisteredAtImport \cup AmocrmTools}
    /\ toolCall = IdleToolCall
    /\ handlerRuns = 0
    /\ toolLog = <<>>

\* call_tool calls made one after another.
NextTool ==
    \/ \E name \in ToolNames : CallToolBegin(name)
    \/ CallToolHandler
    \/ CallToolReturn

SpecTool == InitTool /\ [][NextTool]_vars

\* The long poll of one community against a hub at rest.
InitLongPoll ==
    /\ InitRest
    /\ InitHubIdle
    /\ InitToolIdle

NextLongPoll ==
    \/ \E type \in UpdateTypes : ServerEvent(type)
    \/ LongPollCheck
    \/ LongPollUpdate
    \/ LongPollOnMessage
    \/ LongPollRecover

SpecLongPoll == InitLongPoll /\ [][NextLongPoll]_vars

\* A hub with or without assistant, CRM service and prompt file.
InitHub ==
    /\ InitRest
    /\ InitToolIdle
    /\ assistant \in BOOLEAN
    /\ crm_service \in BOOLEAN
    /\ prompt_exists \in BOOLEAN
    /\ passes = [p \in PassTasks |-> IdlePass]
    /\ current_session = [p \in PassTasks |-> NoSession]
    /\ messages = <<>>
    /\ ai_responses = <<>>
    /\ outbox = <<>>

\* on_incoming_message passes of several tasks, interleaved at every await.
NextHub ==
    \E p \in PassTasks :
        \/ PassBegin(p)
        \/ PassUpsert(p)
        \/ PassCrm(p)
        \/ PassSaveInbound(p)
        \/ PassHistory(p)
        \/ GenerateRound(p)
        \/ PassSaveAi(p)
        \/ PassFallbackSave(p)
        \/ SendTextTyping(p)
        \/ SendTextSend(p)
        \/ SendTextSave(p)

SpecHub == InitHub /\ [][NextHub]_vars

\* The tools a caller of generate may pass.
ToolsInputs == {{}, {"messaging_send_text"}}

\* No generate call is running.
InitGenerate ==
    /\ InitRest
    /\ InitToolIdle
    /\ assistant = TRUE
    /\ crm_service = FALSE
    /\ prompt_exists = TRUE
    /\ passes = [p \in PassTasks |-> IdlePass]
    /\ current_session = [p \in PassTasks |-> NoSession]
    /\ messages = <<>>
    /\ ai_responses = <<>>
    /\ outbox = <<>>

\* generate called with and without tools by two tasks.
NextGenerate ==
    \E p \in PassTasks :
        \/ \E tools \in ToolsInputs : GenerateCall(p, tools)
        \/ GenerateRound(p)

SpecGenerate == InitGenerate /\ [][NextGenerate]_vars

\* The sessions and texts _handle_tool_send_text is called with: the channel
\* of a connector or a channel without one, a text, a blank and "".
SendSessionInputs(p) ==
    {SessionOf(p), [SessionOf(p) EXCEPT !.channel = "whatsapp"]}

SendTextInputs == {<<"h", "i", Blank>>, <<Blank>>, <<>>}

\* _handle_tool_send_text called by two tasks for two users.
NextSendText ==
    \E p \in PassTasks :
        \/ \E session \in SendSessionInputs(p) : \E text \in SendTextInputs :
                SendTextCall(p, session, text)
        \/ SendTextTyping(p)
        \/ SendTextSend(p)
        \/ SendTextSave(p)

SpecSendText == InitGenerate /\ [][NextSendText]_vars

\* change_lead_stage calls of two tasks for one user, interleaved at every
\* await: the binding read, each PATCH attempt and the binding write.
NextStageConc ==
    \E c \in StageCallers :
        \/ \E stage_id \in StageIdInputs : ChangeLeadStageRead(c, stage_id)
        \/ ChangeLeadStagePatch(c)
        \/ ChangeLeadStageWrite(c)
        \/ CallReturn(c)

SpecStageConc == InitStage /\ [][NextStageConc]_vars

\* A user with any of the stored bindings, the funnel of equal sizes loaded.
InitEnsureStage ==
    /\ InitTableIdle
    /\ InitHandlerIdle
    /\ InitToolIdle
    /\ InitHubIdle
    /\ InitEnsureIdle
    /\ InitUpsertIdle
    /\ InitCallsIdle
    /\ stage_ids = CreateStageIds(MaxStages)
    /\ stages = CreateStages(MaxStages, MaxStages)
    /\ \E row \in BindingInputs :
        /\ crm_bindings = [u \in Users |-> IF u = TheUser THEN row ELSE NoRow]
        /\ crmLeadStatus = IF Truthy(row.lead_id) THEN row.lead_status_id ELSE None

\* The ensure_contact_and_lead calls of one task and the change_lead_stage
\* calls of one caller for one user, interleaved at every await.
NextEnsureStage ==
    \/ EnsureBegin("e1")
    \/ EnsureAcquire("e1")
    \/ EnsureRead("e1")
    \/ EnsureCreateContact("e1")
    \/ EnsureCreateLead("e1")
    \/ EnsureWrite("e1")
    \/ EnsureReread("e1")
    \/ EnsureReturn("e1")
    \/ \E stage_id \in StageIdInputs : ChangeLeadStageRead(HandlerCaller, stage_id)
    \/ ChangeLeadStagePatch(HandlerCaller)
    \/ ChangeLeadStageWrite(HandlerCaller)
    \/ CallReturn(HandlerCaller)

SpecEnsureStage == InitEnsureStage /\ [][NextEnsureStage]_vars

\* The answers of the update_lead_fields calls made after
\* ensure_contact_and_lead: one answer to the question of stage 0.
LaterAnswers == <<[question_id |-> QuestionOfIndex(0), values |-> <<StrValue(<<"a">>)>>]>>

\* No ensure_contact_and_lead call is running.
NoEnsureInFlight == \A t \in EnsureTasks : ens[t].pc = "idle"

\* The ensure_contact_and_lead calls of one task for a user the CRM does not
\* know and the funnel calls of one caller for that user, one call after
\* another.
NextEnsureThen ==
    \/ NoCallInFlight /\ EnsureBegin("e1")
    \/ EnsureAcquire("e1")
    \/ EnsureRead("e1")
    \/ EnsureCreateContact("e1")
    \/ EnsureCreateLead("e1")
    \/ EnsureWrite("e1")
    \/ EnsureReread("e1")
    \/ EnsureReturn("e1")
    \/ \E stage_id \in StageIdInputs :
            NoEnsureInFlight /\ ChangeLeadStageRead(HandlerCaller, stage_id)
    \/ ChangeLeadStagePatch(HandlerCaller)
    \/ ChangeLeadStageWrite(HandlerCaller)
    \/ NoEnsureInFlight /\ UpdateLeadFieldsRead(HandlerCaller, LaterAnswers)
    \/ UpdateLeadFieldsPatch(HandlerCaller)
    \/ NoEnsureInFlight /\ GetLeadContextRead(HandlerCaller)
    \/ GetLeadContextFetch(HandlerCaller)
    \/ CallReturn(HandlerCaller)

SpecEnsureThen == InitBinding /\ [][NextEnsureThen]_vars

\* ------------------------------------------------------------------- claims
\* The stage index of the stored lead_status_id of the user.
StoredStageIndex == CurrentStageIndex(crm_bindings[TheUser])

C1_Step == StoredStageIndex' >= StoredStageIndex /\ StoredStageIndex' <= StoredStageIndex + 1

C1_Rejected ==
    \A c \in StageCallers :
        (calls[c].op = "change_lead_stage" /\ calls[c].pc = "done") =>
            /\ calls[c].result # <<"ok">> => crm_bindings[TheUser] = calls[c].binding
            /\ calls[c].result \notin {<<"ok">>, <<"raised">>} => calls[c].sent = 0

\* C1: over sequential change_lead_stage calls with any stage_id, the stage
\* index of the stored lead_status_id never decreases and rises by at most 1
\* per call; a call returning a result other than "ok" has sent no PATCH and
\* has left the stored binding as it read it (a call that ends by _request
\* raising has left the stored binding unchanged as well).
C1_StageMonotone == [][C1_Step]_vars /\ []C1_Rejected

\* C1 witness: a call returned "ok" and the stored stage index is one above
\* the index of the binding the call read.
C1_Witness ==
    \E c \in StageCallers :
        /\ calls[c].op = "change_lead_stage" /\ calls[c].pc = "done"
        /\ calls[c].result = <<"ok">>
        /\ StoredStageIndex = CurrentStageIndex(calls[c].binding) + 1

\* The answers of a call whose question belongs to a stage after the current
\* stage of the lead the call read.
FutureAnswer(c, i) ==
    LET qid == calls[c].answers[i].question_id
    IN  /\ qid # None
        /\ \E k \in 1..Len(stages) :
               /\ stages[k].index > CurrentStageIndex(calls[c].binding)
               /\ \E q \in 1..Len(stages[k].questions) : stages[k].questions[q].id = qid

HasLead(c) == calls[c].binding.exists /\ Truthy(calls[c].binding.lead_id)

\* C4: no answer of a later stage is in the PATCH of update_lead_fields, and
\* a call whose answers are all of later stages returns "stage_not_reached"
\* without sending a PATCH.
C4_StageGate ==
    \A c \in StageCallers :
        (calls[c].op = "update_lead_fields" /\ HasLead(c)) =>
            /\ \A i \in 1..Len(calls[c].answers) :
                   FutureAnswer(c, i) =>
                       \A e \in 1..Len(calls[c].payload) :
                           calls[c].payload[e].field_id # calls[c].answers[i].question_id
            /\ (/\ calls[c].answers # <<>>
                /\ \A i \in 1..Len(calls[c].answers) : FutureAnswer(c, i))
               => /\ calls[c].pc = "done"
                  /\ calls[c].result = <<"stage_not_reached">>
                  /\ calls[c].sent = 0

\* C4 witness: a call with one answer of the current stage and one of a later
\* stage has sent its PATCH.
C4_Witness ==
    \E c \in StageCallers :
        /\ calls[c].op = "update_lead_fields" /\ calls[c].pc = "done"
        /\ calls[c].result = <<"ok">> /\ calls[c].sent > 0
        /\ \E i \in 1..Len(calls[c].answers) : FutureAnswer(c, i)

\* C4 witness of the second half: every answer was of a later stage.
C4_WitnessAllGated ==
    \E c \in StageCallers :
        /\ calls[c].op = "update_lead_fields" /\ calls[c].pc = "done"
        /\ calls[c].result = <<"stage_not_reached">>
        /\ Len(calls[c].answers) = MaxAnswers

\* C2: while every CRM request has succeeded with its entity created, the
\* ensure_contact_and_lead calls of one user, sequential or interleaved, have
\* created at most one contact and one lead, and every call that has returned
\* holds exactly that contact and that lead in the binding it returns.
C2_EnsureOnce ==
    crmAllCreated =>
        /\ crmContacts <= 1 /\ crmLeads <= 1
        /\ \A t \in EnsureTasks :
               ens[t].pc = "done" =>
                   /\ crmContacts = 1 /\ crmLeads = 1
                   /\ ens[t].result.exists
                   /\ ens[t].result.contact_id = ContactId(1)
                   /\ ens[t].result.lead_id = LeadId(1)

\* C2 witness: all tasks have returned from calls that overlapped in time (the
\* second began eagerly, before the first returned) and a third call was made.
C2_Witness ==
    /\ crmAllCreated
    /\ ensBegun = MaxEnsureCalls
    /\ \A t \in EnsureTasks : ens[t].pc = "done"

\* C3: whatever the interleaving of upsert_contact calls with one key, all
\* calls return one global_user_id, exactly one returns created = True, and
\* the key has exactly one row once a call has returned.
C3_UpsertOnce ==
    \A key \in ContactKeys :
        /\ Cardinality(returned[key]) <= 1
        /\ createdCount[key] <= 1
        /\ returned[key] # {} =>
               /\ createdCount[key] = 1
               /\ Cardinality(SelectContact(contacts, key)) = 1
               /\ \A r \in SelectContact(contacts, key) : r.global_user_id \in returned[key]

\* C3 witness: two calls with one key, begun before either held the lock,
\* have both returned, one of them with created = True.
C3_Witness ==
    \E key \in ContactKeys :
        /\ \A t \in UpsertTasks : ups[t].pc = "done" /\ ups[t].key = key
        /\ \E t \in UpsertTasks : ups[t].result[2]
        /\ \E t \in UpsertTasks : ~ups[t].result[2]


\* C6: call_tool never raises to its caller; for a name that is not
\* registered it returns the "not found" string and no handler has run during
\* the call; for a registered tool whose handler raised it returns a string
\* starting with "tool_error: ".
C6_CallToolNeverRaises ==
    /\ toolCall.pc # "raised"
    /\ \A i \in 1..Len(toolLog) : ~toolLog[i].raised
    /\ toolCall.pc = "done" =>
        /\ ~ToolFound(TOOLS, toolCall.name) =>
            /\ toolCall.result = NotFoundText(toolCall.name)
            /\ handlerRuns = toolCall.runs_before
        /\ toolCall.handler_raised =>
            /\ toolCall.result # <<>>
            /\ Head(toolCall.result) = "tool_error: "

\* C6 witness: a call with an unregistered name has returned its string to
\* the caller, and the handler of a registered tool has raised in the next
\* call.
C6_Witness ==
    /\ \E i \in 1..Len(toolLog) : toolLog[i].result = NotFoundText("no_such_tool")
    /\ toolCall.pc = "done"
    /\ toolCall.handler_raised
    /\ toolCall.result = <<"tool_error: ", "AmoCRM 500">>

\* C5: while a pass is inside its AI call, get_current_session() in its task
\* gives the SessionContext of that pass and not that of the other pass,
\* however the two passes interleave.
C5_SessionIsolation ==
    \A p \in PassTasks :
        passes[p].pc = "generate" =>
            /\ GetCurrentSession(current_session, p) = SessionOf(p)
            /\ \A q \in PassTasks \ {p} :
                GetCurrentSession(current_session, p) # SessionOf(q)

\* C5 witness: both passes are inside their AI calls at once, each after a
\* round of the other.
C5_Witness ==
    \A p \in PassTasks : passes[p].pc = "generate" /\ passes[p].round > 0

\* The user of the pass has an outbound record.
HasOutbound(p) ==
    \E i \in 1..Len(messages) :
        /\ messages[i].global_user_id = MessageOf(p).global_user_id
        /\ messages[i].direction = "outbound"

\* The connector refused the send of the pass.
SendFailed(p) ==
    passes[p].send_result # <<>> /\ Head(passes[p].send_result) = "send_failed: "

\* C7 as stated: every pass that has ended without a refused send has at
\* least one outbound message record persisted for its user.
C7_ReplyPersisted ==
    \A p \in PassTasks :
        (passes[p].pc = "done" /\ ~SendFailed(p)) => HasOutbound(p)

\* The fallback text is an AI response record of the user of the pass.
FallbackSaved(p) ==
    \E i \in 1..Len(ai_responses) :
        ai_responses[i] = [global_user_id |-> MessageOf(p).global_user_id,
                           text |-> fallback_text]

\* The fallback text is an outbound message record of the user of the pass.
FallbackPersisted(p) ==
    \E i \in 1..Len(messages) :
        messages[i] = [global_user_id |-> MessageOf(p).global_user_id,
                       direction |-> "outbound", text |-> Strip(fallback_text)]

\* A connector has sent the fallback text to the chat of the pass.
FallbackSent(p) ==
    \E i \in 1..Len(outbox) :
        outbox[i] = [chat_id |-> MessageOf(p).chat_id, text |-> Strip(fallback_text)]

\* generate has raised in the pass.
GenerateRaised(p) ==
    passes[p].gen \in {"raised", "no_text", "exhausted", "executor_raised"}

\* The pass is past the check of `self._assistant is None`.
PastAssistantCheck(p) ==
    passes[p].pc \in {"generate", "save_ai", "fallback_save", "typing", "send",
                      "save_outbound", "done"}

\* C8: a pass without an assistant, or whose generate raised, takes the
\* fallback path; on that path the fallback text is saved as an AI response
\* before any send of it, the text is then sent through _handle_tool_send_text
\* and, when the pass returns, it is an outbound record exactly when the send
\* succeeded (a storage operation that raises ends the pass with that error).
C8_Fallback ==
    \A p \in PassTasks :
        /\ (GenerateRaised(p) \/ (~assistant /\ PastAssistantCheck(p))) =>
            /\ passes[p].path = "fallback"
            /\ passes[p].pc \in {"fallback_save", "typing", "send", "save_outbound",
                                 "done", "escaped"}
        /\ (passes[p].path = "fallback"
              /\ passes[p].pc \in {"typing", "send", "save_outbound", "done"}) =>
            FallbackSaved(p)
        /\ FallbackSent(p) => FallbackSaved(p)
        /\ FallbackPersisted(p) => FallbackSent(p)
        /\ (passes[p].path = "fallback" /\ passes[p].pc = "done") =>
            /\ passes[p].send_result = <<"ok">> \/ SendFailed(p)
            /\ passes[p].send_result = <<"ok">> <=> FallbackPersisted(p)
            /\ passes[p].send_result = <<"ok">> <=> FallbackSent(p)
        /\ (passes[p].path = "fallback" /\ passes[p].pc = "escaped") =>
            passes[p].error \in {"save_ai_response", "save_message"}

\* C8 witness: one pass whose generate found no output text has returned with
\* the fallback text sent and persisted, and another whose provider request
\* failed has returned after the connector refused the send.
C8_Witness ==
    \E p, q \in PassTasks :
        /\ passes[p].pc = "done" /\ passes[p].gen = "no_text"
        /\ passes[p].send_result = <<"ok">>
        /\ passes[q].pc = "done" /\ passes[q].gen = "raised"
        /\ SendFailed(q)

\* C8 witness without an assistant: both passes have returned with the
\* fallback text persisted.
C8_WitnessNoAssistant ==
    /\ ~assistant
    /\ \A p \in PassTasks : passes[p].pc = "done" /\ FallbackPersisted(p)

\* C9: generate makes at most max_rounds provider requests; after max_rounds
\* rounds of tool calls it raises without another request, the hub takes the
\* fallback path, and a pass that returns from it with the send accepted has
\* the fallback text persisted as its reply.
C9_RoundBudget ==
    \A p \in PassTasks :
        /\ passes[p].requests <= max_rounds
        /\ passes[p].round <= max_rounds
        /\ (passes[p].pc = "generate" /\ passes[p].round = max_rounds) => FALSE
        /\ passes[p].gen = "exhausted" =>
            /\ passes[p].requests = max_rounds
            /\ passes[p].path = "fallback"
            /\ passes[p].pc \in {"fallback_save", "typing", "send", "save_outbound",
                                 "done", "escaped"}
            /\ (passes[p].pc = "done" /\ ~SendFailed(p)) => FallbackPersisted(p)

\* C9 witness: a pass whose max_rounds rounds all returned tool calls has
\* ended with the fallback text sent and persisted.
C9_Witness ==
    \E p \in PassTasks :
        /\ passes[p].gen = "exhausted"
        /\ passes[p].requests = max_rounds
        /\ passes[p].pc = "done"
        /\ FallbackSent(p)
        /\ FallbackPersisted(p)

\* C10 as stated: no exception leaves on_incoming_message, and a pass in
\* which a storage operation or the send failed has attempted the fallback
\* reply.
C10_NoEscape ==
    \A p \in PassTasks :
        /\ passes[p].pc # "escaped"
        /\ passes[p].error # "none" => passes[p].path = "fallback"

\* C11 as stated: when change_lead_stage calls for one user interleave, the
\* stage index of the stored lead_status_id never decreases from one stored
\* value to the next.
C11_NeverDecreases == [][StoredStageIndex' >= StoredStageIndex]_vars

\* The statuses of the funnel: those of stages.json and those of the stages.
FunnelStatuses ==
    ({stage_ids[i] : i \in 1..Len(stage_ids)}
        \cup {stages[i].status_id : i \in 1..Len(stages)}) \ {None}

\* The call read a lead whose stored status is a status of the funnel.
LeadAtKnownStage(c) ==
    /\ calls[c].op = "change_lead_stage"
    /\ HasLead(c)
    /\ calls[c].binding.lead_status_id \in FunnelStatuses

\* What the rules of stage order give a call, its lead being at a known stage.
ExpectedStageResult(c) ==
    LET current == StageIndexFromStatus(calls[c].binding.lead_status_id)
        target == StageIndexFromStatus(calls[c].stage_id)
    IN  IF calls[c].stage_id \notin FunnelStatuses THEN "invalid_stage"
        ELSE IF target > current + 1 THEN "stage_out_of_order"
        ELSE IF target < current THEN "stage_regression_not_allowed"
        ELSE "ok"

\* C12: for a lead whose stored status is the funnel status of index c,
\* change_lead_stage gives "invalid_stage" for a stage_id that is no status of
\* the funnel, "stage_out_of_order" for a target index above c+1 and
\* "stage_regression_not_allowed" for one below c, each without a PATCH;
\* otherwise it sends the PATCH with the target status through one _request
\* and, the request answered, stores the target as lead_status_id and returns
\* "ok" (it raises, storing nothing, when _request raises).
C12_StageRules ==
    \A c \in StageCallers :
        LeadAtKnownStage(c) =>
            /\ ExpectedStageResult(c) # "ok" =>
                /\ calls[c].pc = "done"
                /\ calls[c].result = <<ExpectedStageResult(c)>>
                /\ calls[c].sent = 0
                /\ crm_bindings[TheUser] = calls[c].binding
            /\ ExpectedStageResult(c) = "ok" =>
                /\ calls[c].pc \in {"patch_stage", "write_stage", "done"}
                /\ calls[c].sent <= MaxAttempts
                /\ calls[c].pc = "write_stage" => calls[c].sent >= 1
                /\ calls[c].pc = "done" =>
                    /\ calls[c].result \in {<<"ok">>, <<"raised">>}
                    /\ calls[c].sent >= 1
                    /\ calls[c].result = <<"ok">> =>
                        crm_bindings[TheUser].lead_status_id = calls[c].stage_id
                    /\ calls[c].result = <<"raised">> =>
                        /\ crm_bindings[TheUser] = calls[c].binding
                        /\ calls[c].sent = MaxAttempts

\* C12 witness: a jump from stage 0 to the status of stage 2 has returned
\* "stage_out_of_order" without a PATCH.
C12_Witness ==
    \E c \in StageCallers :
        /\ LeadAtKnownStage(c)
        /\ calls[c].binding.lead_status_id = StatusOfIndex(0)
        /\ calls[c].stage_id = StatusOfIndex(2)
        /\ calls[c].pc = "done"
        /\ calls[c].result = <<"stage_out_of_order">>
        /\ calls[c].sent = 0

\* C12 witness of the accepted case: a call to the next stage has returned
\* "ok" with the target stored.
C12_WitnessOk ==
    \E c \in StageCallers :
        /\ LeadAtKnownStage(c)
        /\ calls[c].binding.lead_status_id = StatusOfIndex(0)
        /\ calls[c].stage_id = StatusOfIndex(1)
        /\ calls[c].result = <<"ok">>
        /\ crm_bindings[TheUser].lead_status_id = StatusOfIndex(1)

\* The call read a lead whose stored status is null or no status of the
\* funnel.
LeadAtUnknownStage(c) ==
    /\ calls[c].op = "change_lead_stage"
    /\ HasLead(c)
    /\ calls[c].binding.lead_status_id \notin FunnelStatuses

\* C13 as stated, for change_lead_stage: a lead whose stored status is null
\* or unknown is treated as being at stage 0, so that the status of stage 0
\* or of stage 1 is accepted (the PATCH is sent) and the status of any later
\* stage is rejected as out of order.
C13_UnknownIsStageZero ==
    \A c \in StageCallers :
        (LeadAtUnknownStage(c) /\ calls[c].stage_id \in FunnelStatuses) =>
            IF StageIndexFromStatus(calls[c].stage_id) <= 1
            THEN /\ calls[c].pc \in {"patch_stage", "write_stage", "done"}
                 /\ calls[c].pc = "done" => calls[c].result \in {<<"ok">>, <<"raised">>}
            ELSE /\ calls[c].pc = "done"
                 /\ calls[c].result = <<"stage_out_of_order">>

C14_Aborted ==
    \A t \in EnsureTasks :
        ens[t].aborted =>
            /\ ens[t].pc = "done"
            /\ ~ens[t].wrote
            /\ ens[t].result = ens[t].binding

C14_AbortStep ==
    \A t \in EnsureTasks :
        /\ (~ens[t].aborted /\ ens'[t].aborted) =>
            /\ crm_bindings' = crm_bindings
            /\ crm_bindings[TheUser] = ens'[t].binding
        /\ ens[t].aborted =>
            /\ ens'[t] \in {ens[t], IdleEnsure}
            /\ ens'[t] = IdleEnsure \/ bindingLock' # t

\* C14: a call of ensure_contact_and_lead whose contact-creation or
\* lead-creation request has failed has made no write to the stored binding
\* (which is as the call read it when the call gives up), returns the binding
\* it read at its start, and takes no further step but its return: it issues
\* no other CRM request.
C14_AbortClean == []C14_Aborted /\ [][C14_AbortStep]_vars

\* C14 witness: a call that created the contact and then failed to create the
\* lead has returned the binding it read, which has no contact.
C14_Witness ==
    \E t \in EnsureTasks :
        /\ ens[t].aborted
        /\ ens[t].contact_id # None
        /\ ens[t].binding.contact_id = None
        /\ ens[t].result = ens[t].binding
        /\ crmContacts >= 1

\* The last attempt of the call was a failure for _request.
LastAttemptFailed(c) == AttemptFails([status |-> calls[c].last_status, processed |-> FALSE])

C15_Attempts ==
    \A c \in StageCallers :
        calls[c].op = "change_lead_stage" =>
            /\ calls[c].sent <= MaxAttempts
            /\ (calls[c].pc = "patch_stage" /\ calls[c].sent > 0) =>
                /\ LastAttemptFailed(c)
                /\ calls[c].sent < MaxAttempts
            /\ calls[c].pc = "write_stage" =>
                /\ calls[c].sent >= 1
                /\ ~LastAttemptFailed(c)
            /\ (calls[c].pc = "done" /\ calls[c].result = <<"ok">>) => ~LastAttemptFailed(c)
            /\ (calls[c].pc = "done" /\ calls[c].result = <<"raised">>) =>
                /\ calls[c].sent = MaxAttempts
                /\ LastAttemptFailed(c)
                /\ crm_bindings[TheUser] = calls[c].binding

C15_NoMoreSends ==
    \A c \in StageCallers :
        calls[c].pc \in {"write_stage", "done"} =>
            /\ calls'[c] = IdleCall \/ calls'[c].sent = calls[c].sent
            /\ calls[c].result = <<"raised">> => crm_bindings' = crm_bindings

\* C15: _request sends the PATCH of change_lead_stage at most MaxAttempts
\* times; another attempt is made only after a failed one; the first response
\* that is no failure is returned and nothing is sent after it; after the
\* third failed attempt the error is raised and the call ends with the stored
\* binding as it read it, writing nothing.
C15_RetryBudget == []C15_Attempts /\ [][C15_NoMoreSends]_vars

\* C15 witness: a call has raised after three failed attempts, the CRM having
\* answered 500 to the last one.
C15_Witness ==
    \E c \in StageCallers :
        /\ calls[c].op = "change_lead_stage"
        /\ calls[c].pc = "done"
        /\ calls[c].result = <<"raised">>
        /\ calls[c].sent = MaxAttempts
        /\ calls[c].last_status = 500

\* C15 witness of the success after a retry: the second attempt was answered
\* 200 and the call goes on to its write.
C15_WitnessRetried ==
    \E c \in StageCallers :
        /\ calls[c].pc = "write_stage"
        /\ calls[c].sent = 2
        /\ calls[c].last_status = 200

\* C16 as stated: a response whose status is not 2xx is never returned to the
\* caller as a successful response; the call goes on to its write, or returns
\* "ok", only after a 2xx.
C16_Only2xxReturned ==
    \A c \in StageCallers :
        (calls[c].op = "change_lead_stage"
            /\ (calls[c].pc = "write_stage" \/ calls[c].result = <<"ok">>)) =>
                (calls[c].last_status >= 200 /\ calls[c].last_status <= 299)

\* The set_crm_binding calls made for the user that passed a value for the
\* field.
PassedFor(u, field) ==
    {i \in 1..Len(bindingLog) :
        bindingLog[i].global_user_id = u /\ bindingLog[i][field] # None}

\* The last non-null value passed for the field of the user, if any.
LastPassed(u, field) ==
    IF PassedFor(u, field) = {} THEN None
    ELSE bindingLog[CHOOSE i \in PassedFor(u, field) : \A j \in PassedFor(u, field) : j <= i][field]

RowsOf(u) == {r \in binding_table : r.global_user_id = u}

\* C17: after any sequence of set_crm_binding calls, a user for whom a call
\* was made has exactly one row (a user without a call has none), each of its
\* contact_id, lead_id and lead_status_id is the last non-null value passed
\* for it (null when none was), and get_crm_binding reads that row.
C17_MergeUpsert ==
    \A u \in Users :
        IF \E i \in 1..Len(bindingLog) : bindingLog[i].global_user_id = u
        THEN /\ Cardinality(RowsOf(u)) = 1
             /\ \A r \in RowsOf(u) :
                    /\ \A field \in {"contact_id", "lead_id", "lead_status_id"} :
                           r[field] = LastPassed(u, field)
                    /\ GetCrmBinding(crm_bindings, u) =
                         [exists |-> TRUE, contact_id |-> r.contact_id, lead_id |-> r.lead_id,
                          lead_status_id |-> r.lead_status_id]
        ELSE /\ RowsOf(u) = {}
             /\ GetCrmBinding(crm_bindings, u) = NoRow

\* C17 witness: after (5, 7, status 0), (null, null, status 1) and
\* (6, null, null) for one user, the row holds 6, 7 and status 1.
C17_Witness ==
    /\ Len(bindingLog) = 3
    /\ bindingLog[1] = [global_user_id |-> TheUser, contact_id |-> 5, lead_id |-> 7,
                        lead_status_id |-> StatusOfIndex(0)]
    /\ bindingLog[2] = [global_user_id |-> TheUser, contact_id |-> None, lead_id |-> None,
                        lead_status_id |-> StatusOfIndex(1)]
    /\ bindingLog[3] = [global_user_id |-> TheUser, contact_id |-> 6, lead_id |-> None,
                        lead_status_id |-> None]
    /\ RowsOf(TheUser) = {[global_user_id |-> TheUser, contact_id |-> 6, lead_id |-> 7,
                           lead_status_id |-> StatusOfIndex(1)]}

\* C18: the session a pass sets for its AI call is in force only during that
\* call: before it and after every exit of generate, by return or by
\* exception, and so on the whole fallback path and once the pass has ended,
\* get_current_session() in the task gives the value from before the pass,
\* none; the token the pass holds is that value.
C18_SessionReset ==
    \A p \in PassTasks :
        /\ passes[p].token = NoSession
        /\ passes[p].pc # "generate" => GetCurrentSession(current_session, p) = NoSession
        /\ passes[p].pc = "generate" => GetCurrentSession(current_session, p) # NoSession

\* C18 witness: a pass whose generate raised is on the fallback path with no
\* session in its task, and a pass whose generate returned text has ended
\* with none as well.
C18_Witness ==
    \E p, q \in PassTasks :
        /\ passes[p].gen = "raised" /\ passes[p].pc = "send"
        /\ passes[q].gen = "text" /\ passes[q].pc = "done"
        /\ GetCurrentSession(current_session, p) = NoSession
        /\ GetCurrentSession(current_session, q) = NoSession


\* ---------------------------------------------------------------------- C19
\* The collaborator of the handler with the name is configured.
CollaboratorSet(name) ==
    IF name = "messaging_send_text" THEN MESSAGING_ACTIONS ELSE amocrm_service

\* The handler task has no active session.
NoActiveSession == GetCurrentSession(current_session, HandlerTask) = NoSession

\* While the task has no session, a handler is never past its checks, has
\* raised nothing, nothing was sent or saved and no funnel call was begun; and
\* with its collaborator set its result is "session_not_found".
C19_NoSessionState ==
    NoActiveSession =>
        /\ handlerRun.pc \in {"idle", "done"}
        /\ ~handlerRun.raised
        /\ outbox = <<>>
        /\ messages = <<>>
        /\ calls[HandlerCaller] = IdleCall
        /\ (handlerRun.pc = "done" /\ CollaboratorSet(handlerRun.name)
                => handlerRun.result = <<"session_not_found">>)

\* A step taken without a session leaves the CRM and the storage as they were.
C19_NoSessionStep ==
    NoActiveSession =>
        UNCHANGED <<crm_bindings, crmLeadStatus, binding_table, contacts, messages, outbox>>

\* C19: each tool handler that needs the session (messaging_send_text,
\* amocrm_update_lead_fields, amocrm_set_lead_stage), run without an active
\* session while its collaborator is configured, returns "session_not_found"
\* without raising, without sending a message and without a CRM or storage
\* call.
C19_SessionNotFound == []C19_NoSessionState /\ [][C19_NoSessionStep]_vars

\* Two handlers have run without a session and with their collaborators set,
\* the second one a CRM handler given arguments that pass its later checks.
C19_Witness ==
    /\ NoActiveSession
    /\ MESSAGING_ACTIONS
    /\ amocrm_service
    /\ handlerRuns = MaxHandlerRuns
    /\ handlerRun.pc = "done"
    /\ handlerRun.name = "amocrm_set_lead_stage"
    /\ handlerRun.args.stage_id # None
    /\ handlerRun.result = <<"session_not_found">>

\* The send_text handler has returned "session_not_found" for a text that
\* passes its later check.
C19_WitnessSendText ==
    /\ NoActiveSession
    /\ MESSAGING_ACTIONS
    /\ handlerRun.pc = "done"
    /\ handlerRun.name = "messaging_send_text"
    /\ handlerRun.args.text = <<"h", "i", Blank>>
    /\ handlerRun.result = <<"session_not_found">>

\* The update-fields handler has returned "session_not_found" for a list of
\* answers.
C19_WitnessUpdateFields ==
    /\ NoActiveSession
    /\ amocrm_service
    /\ handlerRun.pc = "done"
    /\ handlerRun.name = "amocrm_update_lead_fields"
    /\ handlerRun.args.answers_is_list
    /\ handlerRun.result = <<"session_not_found">>


\* ---------------------------------------------------------------------- C20
\* One of the two CRM calls of the pass has raised.
CrmRaised(p) == passes[p].crm \in {"ensure_raised", "context_raised"}

\* The inbound message of the pass is in the table messages.
InboundPersisted(p) ==
    \E i \in DOMAIN messages :
        /\ messages[i].direction = "inbound"
        /\ messages[i].global_user_id = MessageOf(p).global_user_id

\* The positions of a pass after its inbound message was saved and the
\* system prompt was found.
AfterInbound ==
    {"history", "generate", "save_ai", "fallback_save", "typing", "send", "save_outbound",
     "done"}

\* After a CRM error the pass has no lead context, the error has not left the
\* pass, past save_message the inbound message is stored, and a pass that has
\* ended has taken the way of the AI reply or of the fallback.
C20_Degraded ==
    \A p \in PassTasks :
        CrmRaised(p) =>
            /\ passes[p].lead_context = "none"
            /\ passes[p].error \notin {"ensure_raised", "context_raised"}
            /\ (passes[p].pc \in AfterInbound => InboundPersisted(p))
            /\ (passes[p].pc = "done" => passes[p].path \in {"ai", "fallback"})
            /\ (passes[p].pc = "escaped" =>
                    passes[p].error \in {"save_message", "FileNotFoundError",
                                         "save_ai_response"})

\* The step in which a CRM call raises takes the pass to save_message.
C20_Continues ==
    \A p \in PassTasks :
        (passes[p].pc = "crm" /\ CrmRaised(p)') => passes'[p].pc = "save_inbound"

\* C20: if ensure_contact_and_lead or get_lead_context raises during a pass,
\* the pass does not abort: it continues without CRM lead context, still
\* persists the inbound message and still runs the AI step or the fallback.
C20_CrmFailureDegrades == []C20_Degraded /\ [][C20_Continues]_vars

\* A pass in which ensure_contact_and_lead raised has stored its inbound
\* message and ended with the saved reply of the AI.
C20_Witness ==
    /\ passes["m1"].crm = "ensure_raised"
    /\ passes["m1"].pc = "done"
    /\ passes["m1"].path = "ai"
    /\ InboundPersisted("m1")
    /\ \E i \in DOMAIN ai_responses : ai_responses[i].text = passes["m1"].ai_text

\* A pass in which get_lead_context raised has ended on the fallback way,
\* the fallback text sent.
C20_WitnessFallback ==
    /\ passes["m2"].crm = "context_raised"
    /\ passes["m2"].pc = "done"
    /\ passes["m2"].path = "fallback"
    /\ InboundPersisted("m2")
    /\ outbox # <<>>


\* ---------------------------------------------------------------------- C21
\* The pass of the hub has ended after generate returned text and the reply
\* was saved.
AiCallSucceeded(p) ==
    /\ passes[p].caller = "hub"
    /\ passes[p].pc = "done"
    /\ passes[p].path = "ai"

\* C21: after a pass whose AI call succeeded, the number of tool-invocation
\* records persisted for the pass equals the number of tool calls handled
\* in the loop, and each record carries the name and the output of the call
\* that has its call_id.
C21_RecordPerCall ==
    \A p \in PassTasks :
        AiCallSucceeded(p) =>
            /\ Len(passes[p].tool_invocations) = Len(passes[p].history)
            /\ \A i \in DOMAIN passes[p].history :
                \E j \in DOMAIN passes[p].tool_invocations :
                    /\ passes[p].tool_invocations[j].call_id = passes[p].history[i].tool_call_id
                    /\ passes[p].tool_invocations[j].name = passes[p].history[i].name
                    /\ passes[p].tool_invocations[j].output = passes[p].history[i].content

\* ---------------------------------------------------------------------- C22
\* C22: every tool call that the provider emits in a round of a hub-driven
\* generate call is executed through call_tool: a tool call that names a
\* registered tool is never answered with "unknown tool".
C22_ToolCallsExecuted ==
    \A p \in PassTasks :
        passes[p].caller = "hub" =>
            \A i \in DOMAIN passes[p].history :
                passes[p].history[i].name \in TOOLS =>
                    passes[p].history[i].content
                        # ToolMessage(passes[p].history[i].name, i, "unknown").content

\* ---------------------------------------------------------------------- C23
\* C23: inside the tool loop of generate, an executor that raises does not
\* make generate raise.
C23_ExecutorErrorContained ==
    \A p \in PassTasks : passes[p].gen # "executor_raised"


\* ---------------------------------------------------------------------- C24
\* The candidate is the integer e, a digit string equal to e, or a text equal
\* to the value of option e ignoring case and surrounding blanks.
NamesOption(question, v, e) ==
    \E i \in DOMAIN question.enums :
        /\ question.enums[i].id = e
        /\ \/ v.kind = "int" /\ v.num = e
           \/ v.kind = "str" /\ IsDigit(Strip(v.text)) /\ IntOf(Strip(v.text)) = e
           \/ v.kind = "str" /\ Lower(Strip(v.text)) = Lower(Strip(question.enums[i].value))

\* C24: _resolve_enum_id returns enum id e for a candidate exactly when the
\* candidate is the integer e, a digit string equal to e, or a text equal to
\* the value of option e ignoring case and surrounding blanks; for every
\* other candidate it returns none.  Checked for the int and str candidates.
C24_ResolveExactly ==
    (/\ valueCall.pc = "done"
     /\ valueCall.op = "_resolve_enum_id"
     /\ valueCall.raw_values[1].kind \in {"int", "str"}) =>
        LET question == valueCall.question
            v == valueCall.raw_values[1]
        IN  /\ valueCall.match # None => NamesOption(question, v, valueCall.match)
            /\ (\E i \in DOMAIN question.enums : NamesOption(question, v, question.enums[i].id))
                    => valueCall.match # None

\* ---------------------------------------------------------------------- C25
\* C25: for a select question the result is decided by the first candidate:
\* the entry {enum_id: e} when it resolves to option e, otherwise the
\* free-text entry of that candidate; later candidates do not change it.
C25_SelectFirstCandidate ==
    (/\ valueCall.pc = "done"
     /\ valueCall.op = "_build_custom_field_values"
     /\ valueCall.question.type = "select"
     /\ valueCall.raw_values # <<>>) =>
        LET first == valueCall.raw_values[1]
            match == ResolveEnumId(valueCall.question, first)
        IN  /\ match # None => valueCall.result = <<EnumEntry(match)>>
            /\ (match = None /\ NormalizeFreeValue(first) # <<>>)
                    => valueCall.result = <<TextEntry(NormalizeFreeValue(first))>>

\* ---------------------------------------------------------------------- C26
\* The free texts of the candidates that resolve to no enum id.
UnresolvedTexts(question, raw_values) ==
    {NormalizeFreeValue(raw_values[i]) :
        i \in {k \in DOMAIN raw_values : ResolveEnumId(question, raw_values[k]) = None}}

\* C26: for a multiselect question the result holds each resolved enum id at
\* most once and each normalized free text at most once, all enum entries
\* before all free-text entries, and a candidate that resolves to an enum id
\* adds no free-text entry.
C26_MultiselectDedupe ==
    (/\ valueCall.pc = "done"
     /\ valueCall.op = "_build_custom_field_values"
     /\ valueCall.question.type = "multiselect") =>
        LET r == valueCall.result
        IN  /\ \A i, j \in DOMAIN r : (i # j /\ r[i].enum_id # None) => r[i].enum_id # r[j].enum_id
            /\ \A i, j \in DOMAIN r : (i # j /\ r[i].enum_id = None) => r[i].value # r[j].value
            /\ \A i, j \in DOMAIN r : (r[i].enum_id # None /\ r[j].enum_id = None) => i < j
            /\ \A i \in DOMAIN r :
                r[i].enum_id = None =>
                    r[i].value \in UnresolvedTexts(valueCall.question, valueCall.raw_values)


\* ---------------------------------------------------------------------- C27
\* The answer is to a known question of a stage reached and its values render
\* to a non-empty list.
AcceptedAnswer(item, binding) ==
    /\ item.question_id # None
    /\ QuestionKnown(item.question_id)
    /\ QuestionStageIndex(item.question_id) <= CurrentStageIndex(binding)
    /\ BuildCustomFieldValues(QuestionById(item.question_id), item.values) # <<>>

\* The positions of the accepted answers, in the order of the answers.
AcceptedPositions(answers, binding) ==
    {i \in DOMAIN answers : AcceptedAnswer(answers[i], binding)}

\* The k-th smallest element of a set of positions.
RECURSIVE KthPosition(_, _)
KthPosition(S, k) ==
    LET least == CHOOSE i \in S : \A j \in S : i <= j
    IN  IF k = 1 THEN least ELSE KthPosition(S \ {least}, k - 1)

\* The update_lead_fields call of a user without a lead has ended with
\* "lead_not_found" and no request; a call with accepted answers has a PATCH
\* payload of one entry per accepted answer, in their order; it sends nothing
\* after a response, each attempt but the last one failed, and it returns "ok"
\* when the PATCH was answered; the answer to the select question of stage 0
\* that names option 5 gives the entry {field_id, [{enum_id: 5}]}.
C27_Payload ==
    \A c \in StageCallers :
        calls[c].op = "update_lead_fields" =>
            LET answers == calls[c].answers
                binding == calls[c].binding
                S == AcceptedPositions(answers, binding)
            IN  /\ ~HasLead(c) =>
                    /\ calls[c].pc = "done"
                    /\ calls[c].result = <<"lead_not_found">>
                    /\ calls[c].sent = 0
                /\ (HasLead(c) /\ S # {}) =>
                    /\ Len(calls[c].payload) = Cardinality(S)
                    /\ \A k \in 1..Cardinality(S) :
                        LET item == answers[KthPosition(S, k)]
                        IN  /\ calls[c].payload[k].field_id = item.question_id
                            /\ calls[c].payload[k].values =
                                 BuildCustomFieldValues(QuestionById(item.question_id),
                                                        item.values)
                            /\ (/\ item.question_id = QuestionOfIndex(0)
                                /\ item.values = <<StrValue(<<Blank, "d", "A", Blank>>)>>)
                               => calls[c].payload[k].values = <<EnumEntry(5)>>
                    /\ calls[c].pc = "done" =>
                        /\ calls[c].sent \in 1..MaxAttempts
                        /\ calls[c].result \in {<<"ok">>, <<"raised">>}
                        /\ calls[c].result = <<"ok">> <=> calls[c].last_status \in 1..399

\* An attempt of the PATCH follows only a failed one and the call sends no
\* PATCH after it has ended.
C27_OnePatch ==
    \A c \in StageCallers :
        (calls[c].op = "update_lead_fields" /\ calls'[c].op = "update_lead_fields"
            /\ calls'[c].sent > calls[c].sent) =>
                /\ calls[c].pc = "patch_fields"
                /\ calls'[c].sent = calls[c].sent + 1
                /\ calls[c].sent > 0 => (calls[c].last_status = 0 \/ calls[c].last_status >= 400)

\* C27: update_lead_fields returns "lead_not_found" and sends nothing when
\* the user has no lead; otherwise, when at least one answer is accepted with
\* a non-empty rendered value, it sends one PATCH whose custom_fields_values
\* has one {field_id, values} entry per such answer, in the answers' order,
\* and returns "ok"; a stage-0 select answer matching option id 5 gives the
\* entry {field_id: q, values: [{enum_id: 5}]}.
C27_UpdateLeadFields == []C27_Payload /\ [][C27_OnePatch]_vars

\* One accepted answer among two: the PATCH was answered at the first attempt
\* and carries the one entry of the select answer that names option 5.
C27_Witness ==
    /\ calls["a"].op = "update_lead_fields"
    /\ calls["a"].pc = "done"
    /\ calls["a"].result = <<"ok">>
    /\ calls["a"].sent = 1
    /\ Len(calls["a"].answers) = 2
    /\ calls["a"].payload =
         <<[field_id |-> QuestionOfIndex(0), values |-> <<EnumEntry(5)>>]>>

\* A call for a user without a lead has returned "lead_not_found".
C27_WitnessNoLead ==
    /\ calls["a"].op = "update_lead_fields"
    /\ calls["a"].answers # <<>>
    /\ calls["a"].result = <<"lead_not_found">>
    /\ calls["a"].sent = 0

\* Two accepted answers, a select and a multiselect one, in the order given.
C27_WitnessTwoEntries ==
    /\ calls["a"].op = "update_lead_fields"
    /\ calls["a"].result = <<"ok">>
    /\ Len(calls["a"].payload) = 2
    /\ calls["a"].payload[1].field_id = QuestionOfIndex(1)
    /\ calls["a"].payload[1].values = <<EnumEntry(6), TextEntry(<<"x">>)>>
    /\ calls["a"].payload[2].field_id = QuestionOfIndex(0)


\* ---------------------------------------------------------------------- C28
\* A get_lead_context call has returned its context.
ContextReturned(c) ==
    /\ calls[c].op = "get_lead_context"
    /\ calls[c].pc = "done"
    /\ calls[c].result = <<"context">>

\* The stages whose status is the stored lead_status_id.
StagesOfStoredStatus(binding) ==
    {k \in DOMAIN stages :
        /\ binding.exists
        /\ binding.lead_status_id # None
        /\ stages[k].status_id = binding.lead_status_id}

\* C28: get_lead_context returns as current stage the stage derived from the
\* stored lead_status_id and as next stage the stage with index current+1, or
\* none when the current stage is the last one; when the user has no lead it
\* makes no CRM request and reports the dash as the answer of every question
\* of the current stage.
C28_LeadContext ==
    \A c \in StageCallers :
        (ContextReturned(c) /\ stages # <<>>) =>
            LET ctx == calls[c].context
                cur == ctx.current_stage.index
            IN  /\ cur \in 0..(Len(stages) - 1)
                /\ ctx.current_stage.status_id = stages[cur + 1].status_id
                /\ \A k \in StagesOfStoredStatus(calls[c].binding) :
                        ctx.current_stage.status_id = stages[k].status_id
                /\ StagesOfStoredStatus(calls[c].binding) # {} =>
                        cur + 1 \in StagesOfStoredStatus(calls[c].binding)
                /\ IF cur = Len(stages) - 1
                   THEN ctx.next_stage = NoStage
                   ELSE /\ ctx.next_stage.index = cur + 1
                        /\ ctx.next_stage.status_id = stages[cur + 2].status_id
                /\ Len(ctx.questions) = Len(stages[cur + 1].questions)
                /\ ~HasLead(c) =>
                    /\ calls[c].sent = 0
                    /\ ~ctx.lead_present
                    /\ \A k \in DOMAIN ctx.questions :
                        /\ ctx.questions[k].id = stages[cur + 1].questions[k].id
                        /\ ctx.questions[k].answer = NoAnswerText

\* A user without a lead got the context of stage 0 with a question answered
\* by the dash and stage 1 as the next stage.
C28_Witness ==
    \E c \in StageCallers :
        /\ ContextReturned(c)
        /\ ~HasLead(c)
        /\ calls[c].sent = 0
        /\ calls[c].context.current_stage.index = 0
        /\ calls[c].context.next_stage.index = 1
        /\ calls[c].context.questions # <<>>

\* A lead at the last stage: the lead was fetched and there is no next stage.
C28_WitnessLastStage ==
    \E c \in StageCallers :
        /\ ContextReturned(c)
        /\ HasLead(c)
        /\ calls[c].sent > 0
        /\ calls[c].context.current_stage.index = MaxStages - 1
        /\ calls[c].context.next_stage = NoStage


\* ---------------------------------------------------------------------- C29
\* The outbound records of the user of the task, and the sends to its chat.
OutboundOf(p) ==
    {i \in DOMAIN messages :
        /\ messages[i].direction = "outbound"
        /\ messages[i].global_user_id = MessageOf(p).global_user_id}

SendsOf(p) == {i \in DOMAIN outbox : outbox[i].chat_id = MessageOf(p).chat_id}

\* The results of a _handle_tool_send_text call that has returned: "ok" with
\* the stripped text sent and saved once, the three failure texts each for
\* its cause and with no outbound record, and no other result.
C29_Results ==
    \A p \in PassTasks :
        (passes[p].caller = "direct" /\ passes[p].pc = "done") =>
            LET r == passes[p].send_result
                text == Strip(passes[p].text)
            IN  /\ r \in {<<"ok">>, <<"connector_not_available">>, <<"invalid_text">>,
                          <<"send_failed: ", "exc">>}
                /\ r = <<"ok">> =>
                    /\ Cardinality(SendsOf(p)) = 1
                    /\ Cardinality(OutboundOf(p)) = 1
                    /\ \A i \in SendsOf(p) : outbox[i].text = text
                    /\ \A i \in OutboundOf(p) : messages[i].text = text
                    /\ text # <<>>
                /\ r = <<"connector_not_available">> <=>
                        ~ConnectorFound(passes[p].session.channel)
                /\ r = <<"invalid_text">> <=>
                        (ConnectorFound(passes[p].session.channel) /\ text = <<>>)
                /\ r # <<"ok">> => OutboundOf(p) = {} /\ SendsOf(p) = {}

\* While a call has not returned "ok" no outbound record of it is stored.
C29_NoEarlyRecord ==
    \A p \in PassTasks :
        (passes[p].caller = "direct" /\ passes[p].send_result # <<"ok">>) => OutboundOf(p) = {}

C29_Returned == C29_Results /\ C29_NoEarlyRecord

\* After simulate_typing, failed or not, the call is at the send.
C29_TypingThenSend ==
    \A p \in PassTasks :
        (passes[p].pc = "typing" /\ passes'[p].pc # "typing") => passes'[p].pc = "send"

\* C29: _handle_tool_send_text returns "ok" only after the send completed
\* and one outbound record with the stripped text was persisted; it returns
\* "connector_not_available" without a connector for the channel,
\* "invalid_text" for a blank text and "send_failed: <detail>" when the send
\* raises, persisting no outbound record in these cases; a failure of
\* simulate_typing does not prevent the send.
C29_SendText == []C29_Returned /\ [][C29_TypingThenSend]_vars

\* A call whose simulate_typing raised has sent the stripped text, saved it
\* and returned "ok", and a call of the other task got "send_failed".
C29_Witness ==
    /\ passes["m1"].caller = "direct"
    /\ passes["m1"].pc = "done"
    /\ passes["m1"].typing = "raise"
    /\ passes["m1"].send_result = <<"ok">>
    /\ \E i \in OutboundOf("m1") : messages[i].text = <<"h", "i">>
    /\ passes["m2"].send_result = <<"send_failed: ", "exc">>

\* The two early returns.
C29_WitnessEarly ==
    /\ passes["m1"].send_result = <<"connector_not_available">>
    /\ passes["m2"].send_result = <<"invalid_text">>
    /\ passes["m2"].text = <<Blank>>


\* ---------------------------------------------------------------------- C30
\* generate has returned final text to the hub.
ReturnedText(p) == passes[p].caller = "hub" /\ passes[p].gen = "text"

\* C30 as stated: in a pass whose AI call returns final text without error
\* the hub makes no connector send and persists no outbound message.
C30_NoHubSend ==
    \A p \in PassTasks : ReturnedText(p) => (SendsOf(p) = {} /\ OutboundOf(p) = {})

\* C30 amended: in a pass whose AI call returns final text and whose AI
\* response is then persisted, the hub makes no connector send and persists
\* no outbound message; the pass sends only when save_ai_response fails and
\* the hub takes the fallback path.
C30_NoHubSendOnAiPath ==
    \A p \in PassTasks :
        ReturnedText(p) =>
            /\ passes[p].path = "ai" => (SendsOf(p) = {} /\ OutboundOf(p) = {})
            /\ (SendsOf(p) # {} \/ OutboundOf(p) # {}) =>
                    (passes[p].path = "fallback" /\ FallbackSaved(p))

\* A pass has ended with the text of generate saved and nothing sent, while
\* the other pass has sent its fallback.
C30_Witness ==
    /\ ReturnedText("m1")
    /\ passes["m1"].pc = "done"
    /\ passes["m1"].path = "ai"
    /\ \E i \in DOMAIN ai_responses :
        /\ ai_responses[i].global_user_id = MessageOf("m1").global_user_id
        /\ ai_responses[i].text = passes["m1"].ai_text
    /\ SendsOf("m1") = {}
    /\ SendsOf("m2") # {}

\* ---------------------------------------------------------------------- C31
\* The pass has awaited the CRM calls: ensure_contact_and_lead, and with it
\* every CRM request of the pass, has been issued.
CrmIssued(p) == passes[p].crm # "none"

\* C31: in every pass the inbound message record is persisted right after
\* identity resolution and before any CRM request of that pass is issued:
\* a pass that has issued its CRM calls has its inbound message stored.
C31_InboundBeforeCrm ==
    \A p \in PassTasks : CrmIssued(p) => InboundPersisted(p)

\* ---------------------------------------------------------------------- C32
\* The on_message calls are made one at a time and in the order of delivery.
C32_OneAtATime ==
    /\ Len(longPoll.started) - Len(longPoll.ended) \in {0, 1}
    /\ \A i \in DOMAIN longPoll.ended : longPoll.ended[i].id = longPoll.started[i]
    /\ \A i \in DOMAIN longPoll.started :
          /\ \E j \in DOMAIN longPoll.delivered : longPoll.delivered[j] = longPoll.started[i]
          /\ \A j \in DOMAIN longPoll.started : i < j => longPoll.started[i] < longPoll.started[j]

\* Between two requests every message delivered so far has had its pass.
C32_NoneSkipped ==
    longPoll.pc = "poll" => longPoll.started = longPoll.delivered

\* C32: the messages that one connector delivers for one user are processed
\* by the hub one at a time in delivery order: a pass does not start before
\* the pass of the message delivered before it has ended, and a pass that
\* raises does not cause later delivered messages to be skipped.
C32_DeliveryOrder == C32_OneAtATime /\ C32_NoneSkipped

\* ---------------------------------------------------------------------- C33
\* A global_user_id returned for a key stays the only one returned for it.
C33_SameId ==
    \A key \in ContactKeys : returned[key] # {} => returned'[key] = returned[key]

\* C33: once upsert_contact has returned global_user_id G for a (channel,
\* platform_user_id), every later upsert_contact for that key returns G,
\* whatever other storage operations run in between.
C33_Immutable == [][C33_SameId]_vars

\* The upsert_contact call of task t returns in this step.
UpsertReturns(t) == ups[t].pc \in {"select", "commit"} /\ ups'[t].pc = "done"

\* A call that returns for a key whose row is stored returns the
\* global_user_id of that row.
C33_ReturnsStored ==
    \A t \in UpsertTasks :
        UpsertReturns(t) =>
            \A r \in SelectContact(contacts, ups[t].key) :
                ups'[t].result[1] = r.global_user_id

\* A stored row is removed or replaced by the script of clear_all only.
C33_RowKept ==
    \A r \in contacts :
        r \notin contacts' => \E t \in UpsertTasks : ups[t].pc = "clear_script"

C33_StorageStep == C33_ReturnsStored /\ C33_RowKept

\* Once a call has returned, the row of its key holds what it returned,
\* unless clear_all has emptied the table since.
C33_RowOfReturned ==
    \A key \in ContactKeys :
        \A r \in SelectContact(contacts, key) :
            \/ r.global_user_id \in returned[key]
            \/ \E t \in UpsertTasks : ups[t].pc = "commit" /\ ups[t].key = key

\* C33 as the code has it: a global_user_id returned for a key is the one of
\* the stored row, the row is kept until clear_all deletes it, and every
\* upsert_contact for the key returns it as long as the row is stored.
C33_ImmutableUntilCleared == []C33_RowOfReturned /\ [][C33_StorageStep]_vars

\* A call for a key has returned the global_user_id that an earlier call
\* created, the other key having got its own in between.
C33_Witness ==
    \E t \in UpsertTasks :
        /\ ups[t].pc = "done"
        /\ ups[t].key # <<>>
        /\ ups[t].result = <<1, FALSE>>
        /\ uuids = 2
        /\ \A key \in ContactKeys : Cardinality(returned[key]) = 1

\* After clear_all a key has been given a second global_user_id.
C33_WitnessCleared ==
    \E key \in ContactKeys : Cardinality(returned[key]) = 2

\* ---------------------------------------------------------------------- C34
\* The ensure_contact_and_lead call of task t has read a binding with a
\* contact and a lead.
HasContactAndLead(t) ==
    /\ ens[t].binding.exists
    /\ Truthy(ens[t].binding.contact_id)
    /\ Truthy(ens[t].binding.lead_id)

\* No step of such a call changes the stored lead_status_id.
C34_Step ==
    \A t \in EnsureTasks :
        (HasContactAndLead(t) /\ ens[t].pc # ens'[t].pc) =>
            crm_bindings'[TheUser].lead_status_id = crm_bindings[TheUser].lead_status_id

\* C34: ensure_contact_and_lead never changes the stored lead_status_id of a
\* user who already has a contact and a lead, also when it runs interleaved
\* with a change_lead_stage call for the same user: a status stored by
\* change_lead_stage is never overwritten by an older value that
\* ensure_contact_and_lead read earlier.
C34_StatusKept == [][C34_Step]_vars

\* ---------------------------------------------------------------------- C35
\* C35: over any sequence of ensure_contact_and_lead calls for one user, also
\* with calls in which the lead creation fails after the contact was created,
\* at most one external contact is created for that user.
C35_OneContact == crmContacts <= 1

\* ---------------------------------------------------------------------- C36
\* C36: a lead-creation POST whose response is lost (transport error or
\* timeout after the CRM processed the request) does not produce a second
\* lead: per user, the number of leads created in the CRM never exceeds one
\* (stated for a user with one contact, so that the leads counted are those
\* of the retried POST).
C36_OneLead == crmContacts <= 1 => crmLeads <= 1

\* ---------------------------------------------------------------------- C37
\* The set_crm_binding of caller c, whose PATCH the CRM answered with 200, is
\* the step that ends the last change_lead_stage call in flight.
LastCallWrites(c) ==
    /\ calls[c].op = "change_lead_stage"
    /\ calls[c].pc = "write_stage"
    /\ calls[c].last_status = 200
    /\ calls'[c].pc = "done"
    /\ \A d \in StageCallers : calls'[d].pc \in {"idle", "done"}

\* The write that ends the last call stores the status the CRM holds.
C37_Step ==
    \A c \in StageCallers :
        LastCallWrites(c) => crm_bindings'[TheUser].lead_status_id = crmLeadStatus'

\* C37: after all change_lead_stage calls for a user have finished, whatever
\* their interleaving, the stored lead_status_id equals the status set by the
\* last PATCH that the CRM received for that lead.
C37_LastPatchStored == [][C37_Step]_vars

\* ---------------------------------------------------------------------- C38
\* What call_tool returns for the handler run that ends with the record run.
ToolResult(run) ==
    CallToolCatch([kind |-> IF run.raised THEN "raise" ELSE "return",
                   value |-> run.result]).result

\* A CRM handler ends in this step and call_tool returns an error string
\* instead of the stage snapshot.
CrmToolFails ==
    /\ handlerRun.pc = "crm_call"
    /\ handlerRun'.pc = "done"
    /\ ToolResult(handlerRun') # <<"snapshot">>

\* Then no PATCH of the call was answered with 200 and the stored binding is
\* the one the call read at its start.
C38_Step ==
    CrmToolFails =>
        /\ calls[HandlerCaller].last_status # 200
        /\ crm_bindings[TheUser] = calls[HandlerCaller].binding

\* C38: when the amocrm_update_lead_fields or amocrm_set_lead_stage tool, run
\* through call_tool, returns an error string instead of the stage snapshot,
\* no PATCH of that call has been applied to the lead and the stored binding
\* is unchanged by that call.
C38_ErrorMeansNoEffect == [][C38_Step]_vars

\* ---------------------------------------------------------------------- C39
\* The ids of the leads that the CRM has created.
CreatedLeadIds == {LeadId(n) : n \in 1..crmLeads}

\* C39: ensure_contact_and_lead stores a lead_id in the binding only when the
\* CRM returned a created lead: a successful lead-creation response that
\* contains no lead leaves the stored binding without a lead_id.
C39_NoLeadNoId ==
    crm_bindings[TheUser].lead_id # None => crm_bindings[TheUser].lead_id \in CreatedLeadIds

\* The stored lead_id is that of a created lead, or it is absent or 0.
C39_StoredLead ==
    Truthy(crm_bindings[TheUser].lead_id) => crm_bindings[TheUser].lead_id \in CreatedLeadIds

\* A funnel call that has read a binding without a lead or with the lead id
\* 0 sends no request: update_lead_fields and change_lead_stage return
\* "lead_not_found", get_lead_context reports that no lead is present.
C39_NoLeadForCalls ==
    \A c \in StageCallers :
        (calls[c].op # "none" /\ ~Truthy(calls[c].binding.lead_id)) =>
            /\ calls[c].sent = 0
            /\ calls[c].pc = "done"
            /\ calls[c].op \in {"update_lead_fields", "change_lead_stage"}
                   => calls[c].result = <<"lead_not_found">>
            /\ calls[c].op = "get_lead_context" => ~calls[c].context.lead_present

C39_Leadless == C39_StoredLead /\ C39_NoLeadForCalls

\* After a lead-creation response without a lead the write stores the lead
\* id 0, and an ensure_contact_and_lead call that reads 0 creates a lead.
C39_Step ==
    \A t \in EnsureTasks :
        /\ (ens[t].pc = "write" /\ ens[t].lead_id = 0 /\ ens'[t].pc = "reread")
               => crm_bindings'[TheUser].lead_id = 0
        /\ (ens[t].pc = "read" /\ crm_bindings[TheUser].lead_id = 0 /\ ens'[t].pc # "read")
               => /\ ens'[t].lead_id = None
                  /\ ens'[t].pc \in {"create_contact", "create_lead"}

\* C39 as the code has it: a successful lead-creation response that contains
\* no lead makes ensure_contact_and_lead store the lead id 0; a stored
\* lead_id other than 0 is that of a lead the CRM returned as created, and no
\* later operation treats a user with the lead id 0 as having a lead.
C39_ZeroIsNoLead == []C39_Leadless /\ [][C39_Step]_vars

\* The binding holds the lead id 0 and a change_lead_stage call made after
\* it was stored has returned "lead_not_found".
C39_Witness ==
    /\ crm_bindings[TheUser].lead_id = 0
    /\ calls[HandlerCaller].op = "change_lead_stage"
    /\ calls[HandlerCaller].pc = "done"
    /\ calls[HandlerCaller].binding.lead_id = 0
    /\ calls[HandlerCaller].result = <<"lead_not_found">>

\* An ensure_contact_and_lead call has read the lead id 0 and is creating a
\* lead.
C39_WitnessEnsure ==
    /\ ens["e1"].binding.exists
    /\ ens["e1"].binding.lead_id = 0
    /\ ens["e1"].pc = "create_lead"

====
